---- MODULE Spec2Model ----
(***************************************************************************)
(* Sophia8: an 8-bit virtual machine with 16-bit addressing (sophia8.cpp)  *)
(* and its two-pass assembler s8asm (s8asm.cpp).                           *)
(*                                                                         *)
(* The module holds these state machines over one set of variables:        *)
(*   SpecPre  - the .include preprocessor (preprocess_file); SpecPreLive   *)
(*              is the same with the fairness of a sequential program      *)
(*   SpecAsm  - assemble(): pass 1 (labels, layout) and pass 2 (emit);     *)
(*              SpecLab and SpecItems run it on programs for the label     *)
(*              rules and for the layout of every kind of item             *)
(*   SpecDeb  - write_debug_map() followed by the VM's load_deb_map() and  *)
(*              the breakpoint resolver; SpecSameName runs it on source    *)
(*              files of one basename                                      *)
(*   SpecVM   - the VM: run(), process_instruction(), breakpoints,         *)
(*              save_debug_image()/load_debug_image(), beside a reference  *)
(*              machine that runs the same image without a breakpoint      *)
(*   SpecIns, SpecOps - assembled instructions executed on the machine     *)
(*   SpecLoop - the countdown loop, run to its HALT                        *)
(*   SpecRestore - main() started on a snapshot file, whole or damaged     *)
(* Variables that a machine does not use stay at their idle value.         *)
(***************************************************************************)
EXTENDS Integers, Sequences, FiniteSets, TLC

(***************************************************************************)
(* Bounds of the model (not program constants).                            *)
(***************************************************************************)
MaxLines == 4
MaxFileLines == 2
MaxCycles == 40
MaxResumes == 2
MaxRecs == 2
MaxOps == 4
MaxLoop == 520

(***************************************************************************)
(* Program constants.                                                      *)
(***************************************************************************)
MEM_SIZE == 65535

(***************************************************************************)
(* Byte arrays (img, used, mem) are zero-filled vectors of MEM_SIZE bytes. *)
(* They are kept sparse: a function from the addresses that hold a         *)
(* non-zero byte to that byte.  MemSet keeps the representation canonical. *)
(***************************************************************************)
EmptyMem == [x \in {} |-> 0]

MemGet(m, a) == IF a \in DOMAIN m THEN m[a] ELSE 0

MemSet(m, a, v) ==
    IF v = 0
    THEN [x \in (DOMAIN m) \ {a} |-> m[x]]
    ELSE [x \in (DOMAIN m) \cup {a} |-> IF x = a THEN v ELSE m[x]]

Range(s) == {s[i] : i \in 1..Len(s)}

Hi(v) == (v \div 256) % 256
Lo(v) == v % 256

VARIABLES
    \* ---- assembler (assemble) ----
    a_pc,               \* position: "off", "pass1", "pass2", "stub", "done", "error"
    a_err,              \* kind of the AsmError thrown, "" if none
    nlines,             \* number of source lines read so far (line_no)
    sym,                \* label -> address
    items,              \* pass-1 layout records
    lc,                 \* location counter
    any_org,
    entry_mark_present,
    entry_mark_addr,    \* -1 = no value
    first_org_addr,     \* -1 = no value
    entry,
    img,
    used,               \* set of addresses whose occupancy byte is 1
    deb_records,
    it_idx,             \* index of the next item of pass 2
    \* ---- preprocessor (preprocess_file) ----
    p_pc,               \* position: "off", "run", "done", "error"
    p_err,              \* kind of the AsmError thrown, "" if none
    p_chain,            \* the chain listed in the include-cycle message
    call,               \* path handed to a preprocess_file call not yet entered, "" if none
    stack_paths,        \* canonical paths of the files being expanded
    included_set,       \* canonical paths of every file ever entered
    frames,             \* per active call: the file and the number of lines read
    expanded,           \* the flat stream of source lines
    \* ---- virtual machine (sophia8) ----
    v_pc,               \* "off", "ref", "run", "broke", "resumed", "exited"
    vm,                 \* the machine of the process under test
    ref,                \* the same image and input run without a breakpoint
    break_enabled,      \* run(): a breakpoint is armed
    break_addr,         \* run(): its address
    debug_img,          \* the file debug.img
    disk_ok,            \* whether debug.img can be written
    cycles,             \* instructions executed by the processes under test
    ref_cycles,         \* instructions executed by the reference run
    resumes,            \* number of times a snapshot has been resumed
    \* ---- debug map (write_debug_map, load_deb_map) ----
    d_pc,               \* "off", "push", "load", "done", "invalid", "run",
                        \* or the message main prints before it returns 1
    d_recs,             \* the assembler's deb_records
    d_file,             \* the lines of the .deb file
    d_idx,              \* the next line load_deb_map reads
    out_bin_path,       \* load_deb_map: the path of the "; Binary:" line
    out_lines,          \* load_deb_map: the records parsed so far
    d_break,            \* main: break_file and break_line of the command line
    d_addr,             \* main: break_addr
    \* ---- assembled instructions on the machine ----
    i_pc,               \* "off", "run", "done"
    i_src,              \* the instructions as written in the source
    i_hist              \* the machine before and after each instruction

avars == <<a_pc, a_err, nlines, sym, items, lc, any_org, entry_mark_present,
           entry_mark_addr, first_org_addr, entry, img, used, deb_records, it_idx>>

pvars == <<p_pc, p_err, p_chain, call, stack_paths, included_set, frames, expanded>>

vvars == <<v_pc, vm, ref, break_enabled, break_addr, debug_img, disk_ok,
           cycles, ref_cycles, resumes>>

dvars == <<d_pc, d_recs, d_file, d_idx, out_bin_path, out_lines, d_break, d_addr>>

ivars == <<i_pc, i_src, i_hist>>

vars == <<avars, pvars, vvars, dvars, ivars>>

(***************************************************************************)
(* Source lines.  A line is kept as the pieces the assembler cuts it into: *)
(* the chained leading labels, the first word (directive or mnemonic, ""   *)
(* when nothing follows the labels), the comma-split operands and, for     *)
(* .string, the characters between the quotes.  An operand token records   *)
(* whether it starts with '#', its identifier text when the rest is an     *)
(* identifier, and the value parse_int_literal gives for it (-1: throws).  *)
(***************************************************************************)
Num(v) == [hash |-> FALSE, id |-> "", val |-> v]
Imm(v) == [hash |-> TRUE, id |-> "", val |-> v]
Id(s)  == [hash |-> FALSE, id |-> s, val |-> -1]

Line(labels, name, ops, str) ==
    [labels |-> labels, name |-> name, ops |-> ops, str |-> str]

LinePool ==
    { Line(<<>>, ".org", <<>>, <<>>),                        \* .org
      Line(<<>>, ".org", <<Num(256)>>, <<>>),                \* .org 0x0100
      Line(<<>>, ".org", <<Num(65533)>>, <<>>),              \* .org 0xFFFD
      Line(<<>>, ".org", <<Num(2)>>, <<>>),                  \* .org 2
      Line(<<>>, ".org", <<Num(65536)>>, <<>>),              \* .org 0x10000
      Line(<<>>, ".byte", <<Num(1), Num(2)>>, <<>>),         \* .byte 1,2
      Line(<<>>, ".byte", <<Num(3)>>, <<>>),                 \* .byte 3
      Line(<<"A">>, "JMP", <<Id("B")>>, <<>>),               \* A: JMP B
      Line(<<"B">>, "JMP", <<Id("A")>>, <<>>),               \* B: JMP A
      Line(<<>>, ".word", <<Id("A"), Num(4660)>>, <<>>),     \* .word A, 0x1234
      Line(<<>>, ".string", <<>>, <<34, 72, 92, 110, 34>>),  \* .string "H\n"
      Line(<<>>, "SET", <<Imm(90), Id("R0")>>, <<>>) }       \* SET #0x5A, R0

is_ident(tok) == (~tok.hash) /\ tok.id # ""

(***************************************************************************)
(* ISA tables of the assembler.                                            *)
(***************************************************************************)
Mnemonics ==
    {"HALT", "LOAD", "STORE", "STORER", "LOADR", "SET", "INC", "DEC", "JMP",
     "CMP", "CMPR", "JZ", "JNZ", "JC", "JNC", "ADD", "ADDR", "PUSH", "POP",
     "CALL", "RET", "SUB", "SUBR", "MUL", "MULR", "DIV", "DIVR", "SHL", "SHR",
     "NOP"}

OPC ==
    [m \in Mnemonics |->
        CASE m = "HALT" -> 0   [] m = "LOAD" -> 1   [] m = "STORE" -> 2
          [] m = "STORER" -> 3 [] m = "LOADR" -> 28 [] m = "SET" -> 4
          [] m = "INC" -> 5    [] m = "DEC" -> 6    [] m = "JMP" -> 7
          [] m = "CMP" -> 8    [] m = "CMPR" -> 9   [] m = "JZ" -> 10
          [] m = "JNZ" -> 11   [] m = "JC" -> 12    [] m = "JNC" -> 13
          [] m = "ADD" -> 14   [] m = "ADDR" -> 15  [] m = "PUSH" -> 16
          [] m = "POP" -> 17   [] m = "CALL" -> 18  [] m = "RET" -> 19
          [] m = "SUB" -> 20   [] m = "SUBR" -> 21  [] m = "MUL" -> 22
          [] m = "MULR" -> 23  [] m = "DIV" -> 24   [] m = "DIVR" -> 25
          [] m = "SHL" -> 26   [] m = "SHR" -> 27   [] m = "NOP" -> 255]

\* JZ and JNZ given the three bytes of JC and JNC
ILEN_m ==
    [m \in Mnemonics |->
        IF m \in {"HALT", "NOP", "RET"} THEN 1
        ELSE IF m \in {"INC", "DEC", "PUSH", "POP"} THEN 2
        ELSE IF m \in {"JMP", "CALL", "JC", "JNC", "SET", "ADD", "SUB", "CMP",
                       "CMPR", "ADDR", "SUBR", "SHL", "SHR", "JZ", "JNZ"} THEN 3
        ELSE 4]

ILEN ==
    [m \in Mnemonics |->
        IF m \in {"HALT", "NOP", "RET"} THEN 1
        ELSE IF m \in {"INC", "DEC", "PUSH", "POP"} THEN 2
        ELSE IF m \in {"JMP", "CALL", "JC", "JNC", "SET", "ADD", "SUB", "CMP",
                       "CMPR", "ADDR", "SUBR", "SHL", "SHR"} THEN 3
        ELSE 4]

RegNames == {"R0", "R1", "R2", "R3", "R4", "R5", "R6", "R7", "IP", "SP", "BP"}

REGTOK ==
    [n \in RegNames |->
        CASE n = "R0" -> 242 [] n = "R1" -> 243 [] n = "R2" -> 244
          [] n = "R3" -> 245 [] n = "R4" -> 246 [] n = "R5" -> 247
          [] n = "R6" -> 248 [] n = "R7" -> 249 [] n = "IP" -> 250
          [] n = "SP" -> 251 [] n = "BP" -> 252]

is_gpr(n) == n \in {"R0", "R1", "R2", "R3", "R4", "R5", "R6", "R7"}

\* operand kinds per mnemonic
SPECS ==
    [m \in Mnemonics |->
        CASE m \in {"LOAD"} -> <<"Addr16", "Gpr">>
          [] m \in {"STORE", "JZ", "JNZ"} -> <<"Gpr", "Addr16">>
          [] m \in {"STORER", "LOADR", "MULR", "DIVR"} -> <<"Gpr", "Gpr", "Gpr">>
          [] m \in {"SET", "ADD", "SUB", "SHL", "SHR"} -> <<"Imm8", "Gpr">>
          [] m \in {"INC", "DEC"} -> <<"Gpr">>
          [] m \in {"JMP", "CALL", "JC", "JNC"} -> <<"Addr16">>
          [] m \in {"RET", "NOP", "HALT"} -> <<>>
          [] m \in {"CMP"} -> <<"Gpr", "Imm8">>
          [] m \in {"CMPR", "ADDR", "SUBR"} -> <<"Gpr", "Gpr">>
          [] m \in {"MUL", "DIV"} -> <<"Imm8", "Gpr", "Gpr">>
          [] m \in {"PUSH", "POP"} -> <<"AnyReg">>]


(***************************************************************************)
(* decode_c_string: the operand of .string, quotes included, as character  *)
(* codes.  i is the 0-based index of the source loop.                      *)
(***************************************************************************)
is_hex_digit(ch) ==
    (ch >= 48 /\ ch <= 57) \/ (ch >= 97 /\ ch <= 102) \/ (ch >= 65 /\ ch <= 70)

hex_val(ch) ==
    IF ch >= 48 /\ ch <= 57 THEN ch - 48
    ELSE IF ch >= 97 /\ ch <= 102 THEN 10 + (ch - 97)
    ELSE 10 + (ch - 65)

RECURSIVE decode_from(_, _, _)
decode_from(q, i, out) ==
    IF ~(i + 1 < Len(q))
    THEN IF \E k \in 1..Len(out) : out[k] > 127
         THEN [err |-> "NonAsciiString", bytes |-> <<>>]
         ELSE [err |-> "", bytes |-> out]
    ELSE LET ch == q[i + 1] IN
         IF ch = 92
         THEN IF i + 1 >= Len(q) - 1
              THEN [err |-> "BadStringEscape", bytes |-> <<>>]
              ELSE LET n == q[i + 2] IN
                   CASE n = 92  -> decode_from(q, i + 2, Append(out, 92))
                     [] n = 34  -> decode_from(q, i + 2, Append(out, 34))
                     [] n = 110 -> decode_from(q, i + 2, Append(out, 10))
                     [] n = 114 -> decode_from(q, i + 2, Append(out, 13))
                     [] n = 116 -> decode_from(q, i + 2, Append(out, 9))
                     [] n = 48  -> decode_from(q, i + 2, Append(out, 0))
                     [] n = 120 ->
                          IF (i + 1) + 2 >= Len(q) - 1
                          THEN [err |-> "BadStringEscape", bytes |-> <<>>]
                          ELSE LET h1 == q[i + 3]
                                   h2 == q[i + 4]
                               IN IF ~is_hex_digit(h1) \/ ~is_hex_digit(h2)
                                  THEN [err |-> "BadStringEscape", bytes |-> <<>>]
                                  ELSE decode_from(q, i + 4,
                                         Append(out, (hex_val(h1) * 16 + hex_val(h2)) % 256))
                     [] OTHER -> [err |-> "BadStringEscape", bytes |-> <<>>]
         ELSE IF ch > 127
              THEN [err |-> "NonAsciiString", bytes |-> <<>>]
              ELSE decode_from(q, i + 1, Append(out, ch))

decode_c_string(quoted) ==
    IF Len(quoted) < 2 \/ quoted[1] # 34 \/ quoted[Len(quoted)] # 34
    THEN [err |-> "InvalidStringSyntax", bytes |-> <<>>]
    ELSE decode_from(quoted, 1, <<>>)

(***************************************************************************)
(* PASS 1: labels + layout.                                                *)
(***************************************************************************)
\* a label already bound is bound again
RECURSIVE bind_labels_m(_, _, _)
bind_labels_m(labels, sy, l) ==
    IF labels = <<>> THEN [err |-> "", sym |-> sy]
    ELSE bind_labels_m(Tail(labels),
                       [x \in DOMAIN sy \cup {Head(labels)} |->
                           IF x = Head(labels) THEN l ELSE sy[x]], l)

\* the chained-label loop: each peeled label is bound to the location counter
RECURSIVE bind_labels(_, _, _)
bind_labels(labels, sy, l) ==
    IF labels = <<>> THEN [err |-> "", sym |-> sy]
    ELSE IF Head(labels) \in DOMAIN sy
         THEN [err |-> "DuplicateLabel", sym |-> sy]
         ELSE bind_labels(Tail(labels), (Head(labels) :> l) @@ sy, l)

Item(kind, name, ops, str, addr, size, line_no) ==
    [kind |-> kind, name |-> name, ops |-> ops, str |-> str,
     addr |-> addr, size |-> size, line_no |-> line_no]

\* the layout state that one statement of pass 1 updates
LayoutState ==
    [err |-> "", lc |-> lc, any_org |-> any_org,
     entry_mark_present |-> entry_mark_present,
     entry_mark_addr |-> entry_mark_addr,
     first_org_addr |-> first_org_addr, items |-> items]

LFail(st, e) == [st EXCEPT !.err = e]

layout_org_m(st, ln, no) ==
    LET st1 == [st EXCEPT !.any_org = TRUE] IN
    IF ln.ops = <<>>
    THEN IF st1.entry_mark_present
         THEN LFail(st1, "DuplicateEntryMarker")
         ELSE [st1 EXCEPT !.entry_mark_present = TRUE,
                          !.entry_mark_addr = st1.lc,
                          !.items = Append(@, Item("Dir", ".org", ln.ops, <<>>, st1.lc, 0, no))]
    ELSE IF Len(ln.ops) # 1 THEN LFail(st1, "BadOperandCount")
    ELSE IF ln.ops[1].hash THEN LFail(st1, "BadAddress")
    ELSE IF is_ident(ln.ops[1]) THEN LFail(st1, "BadAddress")
    ELSE IF ln.ops[1].val = -1 THEN LFail(st1, "BadAddress")
    ELSE IF ~(ln.ops[1].val <= 65535) THEN LFail(st1, "OutOfRange")
    ELSE [st1 EXCEPT !.first_org_addr = IF @ = -1 THEN ln.ops[1].val ELSE @,
                     !.lc = ln.ops[1].val,
                     !.items = Append(@, Item("Dir", ".org", ln.ops, <<>>, ln.ops[1].val, 0, no))]

\* .org, with or without operand
layout_org(st, ln, no) ==
    LET st1 == [st EXCEPT !.any_org = TRUE] IN
    IF ln.ops = <<>>
    THEN IF st1.entry_mark_present
         THEN LFail(st1, "DuplicateEntryMarker")
         ELSE [st1 EXCEPT !.entry_mark_present = TRUE,
                          !.entry_mark_addr = st1.lc,
                          !.items = Append(@, Item("Dir", ".org", ln.ops, <<>>, st1.lc, 0, no))]
    ELSE IF Len(ln.ops) # 1 THEN LFail(st1, "BadOperandCount")
    ELSE IF ln.ops[1].hash THEN LFail(st1, "BadAddress")
    ELSE IF is_ident(ln.ops[1]) THEN LFail(st1, "BadAddress")
    ELSE IF ln.ops[1].val = -1 THEN LFail(st1, "BadAddress")
    ELSE IF ~(ln.ops[1].val <= 65535) THEN LFail(st1, "OutOfRange")
    ELSE IF ~(ln.ops[1].val >= 3) THEN LFail(st1, "OrgBelowReserved")
    ELSE [st1 EXCEPT !.first_org_addr = IF @ = -1 THEN ln.ops[1].val ELSE @,
                     !.lc = ln.ops[1].val,
                     !.items = Append(@, Item("Dir", ".org", ln.ops, <<>>, ln.ops[1].val, 0, no))]

\* a directive line
layout_directive(st, ln, no) ==
    CASE ln.name = ".org" -> layout_org(st, ln, no)
      [] ln.name = ".string" ->
            IF ln.str = <<>> THEN LFail(st, "InvalidStringSyntax")
            ELSE LET d == decode_c_string(ln.str) IN
                 IF d.err # "" THEN LFail(st, d.err)
                 ELSE [st EXCEPT
                         !.items = Append(@, Item("Dir", ".string", <<>>, ln.str,
                                                  st.lc, Len(d.bytes) + 1, no)),
                         !.lc = @ + Len(d.bytes) + 1]
      [] ln.name = ".byte" ->
            IF ln.ops = <<>> THEN LFail(st, "BadOperandCount")
            ELSE [st EXCEPT
                    !.items = Append(@, Item("Dir", ".byte", ln.ops, <<>>,
                                             st.lc, Len(ln.ops), no)),
                    !.lc = @ + Len(ln.ops)]
      [] ln.name = ".word" ->
            IF ln.ops = <<>> THEN LFail(st, "BadOperandCount")
            ELSE [st EXCEPT
                    !.items = Append(@, Item("Dir", ".word", ln.ops, <<>>,
                                             st.lc, Len(ln.ops) * 2, no)),
                    !.lc = @ + Len(ln.ops) * 2]
      [] OTHER -> LFail(st, "UnknownDirective")

\* an instruction line
layout_instruction(st, ln, no) ==
    IF ln.name \notin Mnemonics THEN LFail(st, "UnknownInstruction")
    ELSE IF Len(ln.ops) # Len(SPECS[ln.name]) THEN LFail(st, "BadOperandCount")
    ELSE [st EXCEPT
            !.items = Append(@, Item("Ins", ln.name, ln.ops, <<>>,
                                     st.lc, ILEN[ln.name], no)),
            !.lc = @ + ILEN[ln.name]]

IsDirectiveName(name) ==
    name \in {".org", ".string", ".byte", ".word", ".include", ".bogus"}

layout_statement_m(st, ln, no) ==
    IF IsDirectiveName(ln.name)
    THEN layout_directive(st, ln, no)
    ELSE layout_instruction(st, ln, no)

\* the statement after the labels, then the check of the location counter
layout_statement(st, ln, no) ==
    LET st1 == IF IsDirectiveName(ln.name)
               THEN layout_directive(st, ln, no)
               ELSE layout_instruction(st, ln, no)
    IN IF st1.err # "" THEN st1
       ELSE IF ~(st1.lc <= MEM_SIZE) THEN LFail(st1, "OutOfRange")
       ELSE st1

\* one iteration of the pass-1 loop over src_lines
Pass1Line(ln) ==
    /\ a_pc = "pass1"
    /\ nlines < MaxLines
    /\ nlines' = nlines + 1
    /\ LET b  == bind_labels(ln.labels, sym, lc)
           st == IF ln.name = "" THEN LayoutState
                 ELSE layout_statement(LayoutState, ln, nlines + 1)
       IN IF b.err # ""
          THEN /\ a_pc' = "error"
               /\ a_err' = b.err
               /\ UNCHANGED <<sym, items, lc, any_org, entry_mark_present,
                              entry_mark_addr, first_org_addr>>
          ELSE /\ sym' = b.sym
               /\ a_pc' = IF st.err # "" THEN "error" ELSE "pass1"
               /\ a_err' = st.err
               /\ items' = st.items
               /\ lc' = st.lc
               /\ any_org' = st.any_org
               /\ entry_mark_present' = st.entry_mark_present
               /\ entry_mark_addr' = st.entry_mark_addr
               /\ first_org_addr' = st.first_org_addr
    /\ UNCHANGED <<entry, img, used, deb_records, it_idx>>

\* the entry address: the marker's if present, else the first numeric .org
entry_of_m(present, mark_addr, first_addr) ==
    IF first_addr # -1 THEN first_addr ELSE mark_addr

entry_of(present, mark_addr, first_addr) ==
    IF present THEN mark_addr ELSE first_addr

\* after the last line: the .org requirement, the entry address, and the
\* allocation of the image and of the occupancy bitmap for pass 2
Pass1End ==
    /\ a_pc = "pass1"
    /\ IF ~any_org
       THEN /\ a_pc' = "error"
            /\ a_err' = "MissingOrg"
            /\ UNCHANGED <<entry, img, used, it_idx>>
       ELSE IF ~entry_mark_present /\ first_org_addr = -1
       THEN /\ a_pc' = "error"
            /\ a_err' = "MissingOrg"
            /\ UNCHANGED <<entry, img, used, it_idx>>
       ELSE /\ entry' = entry_of(entry_mark_present, entry_mark_addr, first_org_addr)
            /\ img' = EmptyMem
            /\ used' = {0, 1, 2}
            /\ it_idx' = 1
            /\ a_pc' = "pass2"
            /\ a_err' = ""
    /\ UNCHANGED <<nlines, sym, items, lc, any_org, entry_mark_present,
                   entry_mark_addr, first_org_addr, deb_records>>


(***************************************************************************)
(* PASS 2: emit.  An emission state carries the image, the occupancy       *)
(* bitmap and the error of the first failed require (a thrown AsmError     *)
(* skips everything after it).                                             *)
(***************************************************************************)
EFail(es, e) == IF es.err # "" THEN es ELSE [es EXCEPT !.err = e]

emit_byte_m(es, addr, val) ==
    IF es.err # "" THEN es
    ELSE IF ~(addr < MEM_SIZE) THEN [es EXCEPT !.err = "OutOfRange"]
    ELSE [es EXCEPT !.img = MemSet(@, addr, val), !.used = @ \cup {addr}]

emit_byte(es, addr, val) ==
    IF es.err # "" THEN es
    ELSE IF ~(addr < MEM_SIZE) THEN [es EXCEPT !.err = "OutOfRange"]
    ELSE IF addr \in es.used THEN [es EXCEPT !.err = "Overlap"]
    ELSE [es EXCEPT !.img = MemSet(@, addr, val), !.used = @ \cup {addr}]

emit_u16be_m(es, addr, v) ==
    emit_byte(emit_byte(es, addr, Lo(v)), addr + 1, Hi(v))

emit_u16be(es, addr, v) ==
    emit_byte(emit_byte(es, addr, Hi(v)), addr + 1, Lo(v))

\* consecutive emit_byte calls with addr++
RECURSIVE emit_seq(_, _, _)
emit_seq(es, addr, bytes) ==
    IF bytes = <<>> THEN es
    ELSE emit_seq(emit_byte(es, addr, Head(bytes)), addr + 1, Tail(bytes))

\* operand resolution: the error thrown, or the value
resolve_addr16(tok, sy) ==
    IF tok.hash THEN [err |-> "BadAddress", v |-> 0]
    ELSE IF is_ident(tok)
         THEN IF tok.id \in DOMAIN sy
              THEN [err |-> "", v |-> sy[tok.id] % 65536]
              ELSE [err |-> "UndefinedLabel", v |-> 0]
    ELSE IF tok.val = -1 THEN [err |-> "BadAddress", v |-> 0]
    ELSE IF ~(tok.val <= 65535) THEN [err |-> "BadAddress", v |-> 0]
    ELSE [err |-> "", v |-> tok.val]

resolve_imm8(tok) ==
    IF ~tok.hash THEN [err |-> "BadImmediate", v |-> 0]
    ELSE IF tok.val = -1 THEN [err |-> "BadImmediate", v |-> 0]
    ELSE IF ~(tok.val <= 255) THEN [err |-> "BadImmediate", v |-> 0]
    ELSE [err |-> "", v |-> tok.val]

resolve_reg(tok, kind) ==
    IF tok.hash \/ tok.id \notin RegNames THEN [err |-> "BadRegister", v |-> 0]
    ELSE IF kind = "Gpr" /\ ~is_gpr(tok.id) THEN [err |-> "BadRegister", v |-> 0]
    ELSE [err |-> "", v |-> REGTOK[tok.id]]

\* a resolved operand: the error thrown, or its value and width in bytes
get_addr(tok, sy) ==
    LET a == resolve_addr16(tok, sy) IN [err |-> a.err, w |-> 2, v |-> a.v]
get_imm(tok)  == LET i == resolve_imm8(tok) IN [err |-> i.err, w |-> 1, v |-> i.v]
get_gpr(tok)  == LET g == resolve_reg(tok, "Gpr") IN [err |-> g.err, w |-> 1, v |-> g.v]
get_anyr(tok) == LET g == resolve_reg(tok, "AnyReg") IN [err |-> g.err, w |-> 1, v |-> g.v]

\* the operands in the order the encoder resolves them: the first error wins
RECURSIVE first_err(_)
first_err(rs) ==
    IF rs = <<>> THEN ""
    ELSE IF Head(rs).err # "" THEN Head(rs).err
    ELSE first_err(Tail(rs))

\* the fixed layout per mnemonic: the operands after the opcode, in
\* emission order
encode_operands(m, ops, sy) ==
    CASE m = "STORE" -> <<get_gpr(ops[1]), get_addr(ops[2], sy)>>
      [] m = "LOAD" -> <<get_addr(ops[1], sy), get_gpr(ops[2])>>
      [] m \in {"JMP", "CALL", "JC", "JNC"} -> <<get_addr(ops[1], sy)>>
      [] m \in {"JZ", "JNZ"} -> <<get_gpr(ops[1]), get_addr(ops[2], sy)>>
      [] m \in {"SET", "ADD", "SUB", "SHL", "SHR"} -> <<get_imm(ops[1]), get_gpr(ops[2])>>
      [] m = "CMP" -> <<get_gpr(ops[1]), get_imm(ops[2])>>
      [] m \in {"INC", "DEC"} -> <<get_gpr(ops[1])>>
      [] m \in {"CMPR", "ADDR", "SUBR"} -> <<get_gpr(ops[1]), get_gpr(ops[2])>>
      [] m \in {"LOADR", "STORER", "MULR", "DIVR"} ->
            <<get_gpr(ops[1]), get_gpr(ops[2]), get_gpr(ops[3])>>
      [] m \in {"MUL", "DIV"} -> <<get_imm(ops[1]), get_gpr(ops[2]), get_gpr(ops[3])>>
      [] m \in {"PUSH", "POP"} -> <<get_anyr(ops[1])>>
      [] m \in {"NOP", "HALT", "RET"} -> <<>>

\* the bytes pushed on the span of the debug record
RECURSIVE span_of(_)
span_of(rs) ==
    IF rs = <<>> THEN <<>>
    ELSE (IF Head(rs).w = 2 THEN <<Hi(Head(rs).v), Lo(Head(rs).v)>> ELSE <<Head(rs).v>>)
         \o span_of(Tail(rs))

\* the operand emissions: emit_u16be for an address, emit_byte otherwise
RECURSIVE emit_operands(_, _, _)
emit_operands(es, addr, rs) ==
    IF rs = <<>> THEN es
    ELSE IF Head(rs).w = 2
         THEN emit_operands(emit_u16be(es, addr, Head(rs).v), addr + 2, Tail(rs))
         ELSE emit_operands(emit_byte(es, addr, Head(rs).v), addr + 1, Tail(rs))

\* .byte: per operand, validate then emit
RECURSIVE emit_byte_ops(_, _, _)
emit_byte_ops(es, addr, ops) ==
    IF ops = <<>> \/ es.err # "" THEN es
    ELSE LET op == Head(ops) IN
         IF op.hash \/ is_ident(op) \/ op.val = -1 \/ ~(op.val <= 255)
         THEN EFail(es, "BadByteLiteral")
         ELSE LET es1 == emit_byte(es, addr, op.val)
              IN emit_byte_ops([es1 EXCEPT !.span = IF es1.err = "" THEN Append(@, op.val) ELSE @],
                               addr + 1, Tail(ops))

\* .word: per operand, a label or a literal, emitted big-endian
RECURSIVE emit_word_ops(_, _, _, _)
emit_word_ops(es, addr, ops, sy) ==
    IF ops = <<>> \/ es.err # "" THEN es
    ELSE LET op == Head(ops) IN
         IF op.hash THEN EFail(es, "BadWordLiteral")
         ELSE IF is_ident(op) /\ op.id \notin DOMAIN sy THEN EFail(es, "UndefinedLabel")
         ELSE IF ~is_ident(op) /\ (op.val = -1 \/ ~(op.val <= 65535))
              THEN EFail(es, "BadWordLiteral")
         ELSE LET v   == IF is_ident(op) THEN sy[op.id] % 65536 ELSE op.val
                  es1 == emit_u16be(es, addr, v)
              IN emit_word_ops([es1 EXCEPT !.span = IF es1.err = "" THEN @ \o <<Hi(v), Lo(v)>> ELSE @],
                               addr + 2, Tail(ops), sy)

\* one item of pass 2: the emission state after it (span = the bytes of its
\* debug record)
emit_item(it, im, us, sy) ==
    LET es0 == [err |-> "", img |-> im, used |-> us, span |-> <<>>] IN
    IF it.kind = "Dir"
    THEN CASE it.name = ".org" -> es0
           [] it.name = ".byte" -> emit_byte_ops(es0, it.addr, it.ops)
           [] it.name = ".string" ->
                LET d == decode_c_string(it.str) IN
                IF d.err # "" THEN EFail(es0, d.err)
                ELSE LET es1 == emit_seq(es0, it.addr, d.bytes \o <<0>>)
                     IN [es1 EXCEPT !.span = d.bytes \o <<0>>]
           [] it.name = ".word" -> emit_word_ops(es0, it.addr, it.ops, sy)
    ELSE LET es1 == emit_byte(es0, it.addr, OPC[it.name])
             enc == encode_operands(it.name, it.ops, sy)
         IN IF es1.err # "" THEN es1
            ELSE IF first_err(enc) # "" THEN EFail(es1, first_err(enc))
            ELSE LET es2 == emit_operands(es1, it.addr + 1, enc)
                 IN [es2 EXCEPT !.span = <<OPC[it.name]>> \o span_of(enc)]

DebRecord(kind, addr, bytes, file, line_no) ==
    [kind |-> kind, addr |-> addr, bytes |-> bytes, file |-> file, line_no |-> line_no]

\* one iteration of the pass-2 loop over items
Pass2Item ==
    /\ a_pc = "pass2"
    /\ it_idx <= Len(items)
    /\ LET it == items[it_idx]
           es == emit_item(it, img, used, sym)
       IN IF es.err # ""
          THEN /\ a_pc' = "error"
               /\ a_err' = es.err
               /\ UNCHANGED <<img, used, deb_records, it_idx>>
          ELSE /\ img' = es.img
               /\ used' = es.used
               /\ deb_records' =
                     IF it.name = ".org" THEN deb_records
                     ELSE Append(deb_records,
                                 DebRecord(IF it.kind = "Ins" THEN "CODE" ELSE "DATA",
                                           it.addr, es.span, "main.s8", it.line_no))
               /\ it_idx' = it_idx + 1
               /\ UNCHANGED <<a_pc, a_err>>
    /\ UNCHANGED <<nlines, sym, items, lc, any_org, entry_mark_present,
                   entry_mark_addr, first_org_addr, entry>>

\* after the loop: the implicit entry JMP at 0x0000 (no overlap check)
Pass2Stub ==
    /\ a_pc = "pass2"
    /\ it_idx > Len(items)
    /\ img' = MemSet(MemSet(MemSet(img, 0, OPC["JMP"]), 1, Hi(entry)), 2, Lo(entry))
    /\ deb_records' = Append(deb_records,
                             DebRecord("CODE", 0, <<OPC["JMP"], Hi(entry), Lo(entry)>>,
                                       "<implicit>", 0))
    /\ a_pc' = "done"
    /\ UNCHANGED <<a_err, nlines, sym, items, lc, any_org, entry_mark_present,
                   entry_mark_addr, first_org_addr, entry, used, it_idx>>

AsmInit ==
    /\ a_pc = "pass1"
    /\ a_err = ""
    /\ nlines = 0
    /\ sym = EmptyMem
    /\ items = <<>>
    /\ lc = 3
    /\ any_org = FALSE
    /\ entry_mark_present = FALSE
    /\ entry_mark_addr = -1
    /\ first_org_addr = -1
    /\ entry = 0
    /\ img = EmptyMem
    /\ used = {}
    /\ deb_records = <<>>
    /\ it_idx = 0

AsmIdle ==
    /\ a_pc = "off"
    /\ a_err = ""
    /\ nlines = 0
    /\ sym = EmptyMem
    /\ items = <<>>
    /\ lc = 3
    /\ any_org = FALSE
    /\ entry_mark_present = FALSE
    /\ entry_mark_addr = -1
    /\ first_org_addr = -1
    /\ entry = 0
    /\ img = EmptyMem
    /\ used = {}
    /\ deb_records = <<>>
    /\ it_idx = 0

AsmNext ==
    \/ \E ln \in LinePool : Pass1Line(ln)
    \/ Pass1End
    \/ Pass2Item
    \/ Pass2Stub


(***************************************************************************)
(* Programs for the label rules: chained labels, names that differ in case *)
(* only, a label in front of an .org and a label alone on its line.        *)
(***************************************************************************)
LabelPool ==
    { Line(<<>>, ".org", <<>>, <<>>),                        \* .org
      Line(<<"A">>, "JMP", <<Id("B")>>, <<>>),               \* A: JMP B
      Line(<<"B">>, "JMP", <<Id("A")>>, <<>>),               \* B: JMP A
      Line(<<"a", "A">>, ".byte", <<Num(3)>>, <<>>),         \* a: A: .byte 3
      Line(<<"B">>, ".org", <<Num(256)>>, <<>>),             \* B: .org 0x0100
      Line(<<"C">>, "", <<>>, <<>>),                         \* C:
      Line(<<"a", "C">>, ".byte", <<Num(1), Num(2)>>, <<>>), \* a: C: .byte 1,2
      Line(<<"b", "b">>, "", <<>>, <<>>) }                   \* b: b:

LabNext ==
    \/ \E ln \in LabelPool : Pass1Line(ln)
    \/ Pass1End
    \/ Pass2Item
    \/ Pass2Stub


(***************************************************************************)
(* Programs for the layout of items: an .org line, a label alone or in     *)
(* front of data, an entry marker, a second label or a second .org, and    *)
(* then one instruction of every mnemonic or a data directive, with        *)
(* operands of the kinds SPECS lists.                                      *)
(***************************************************************************)
OperandFor(kind) ==
    CASE kind = "Addr16" -> Id("C")
      [] kind = "Imm8" -> Imm(90)
      [] kind = "Gpr" -> Id("R1")
      [] kind = "AnyReg" -> Id("SP")

InsLine(labels, m) ==
    Line(labels, m, [i \in 1..Len(SPECS[m]) |-> OperandFor(SPECS[m][i])], <<>>)

\* the lines that can stand at line n + 1 of the source
ItemLines(n) ==
    CASE n = 0 -> {Line(<<>>, ".org", <<>>, <<>>),                       \* .org
                   Line(<<>>, ".org", <<Num(256)>>, <<>>)}               \* .org 0x0100
      [] n = 1 -> {Line(<<"C">>, "", <<>>, <<>>),                        \* C:
                   Line(<<"C">>, ".string", <<>>, <<34, 72, 92, 110, 34>>), \* C: .string "H\n"
                   Line(<<"C">>, ".word", <<Id("C"), Num(4660)>>, <<>>)} \* C: .word C, 0x1234
      [] n = 2 -> {Line(<<>>, ".org", <<>>, <<>>),                       \* .org
                   Line(<<"D">>, "", <<>>, <<>>),                        \* D:
                   Line(<<"D">>, ".org", <<Num(512)>>, <<>>)}            \* D: .org 0x0200
      [] n = 3 -> {InsLine(<<"E">>, m) : m \in Mnemonics}
                  \cup {Line(<<"E">>, ".byte", <<Num(1), Num(2), Num(3)>>, <<>>),
                        Line(<<"E">>, ".string", <<>>, <<34, 34>>),      \* E: .string ""
                        Line(<<"E">>, ".word", <<Id("D")>>, <<>>)}
      [] OTHER -> {InsLine(<<>>, "NOP"), InsLine(<<"F">>, "JZ")}

AllItemLines == UNION {ItemLines(n) : n \in 0..MaxLines}

ItemsNext ==
    \/ \E ln \in ItemLines(nlines) : Pass1Line(ln)
    \/ Pass1End
    \/ Pass2Item
    \/ Pass2Stub

(***************************************************************************)
(* Preprocessor.  The source files live in one directory; an include       *)
(* operand is one of the spellings below and canonical_or_absolute maps a  *)
(* spelling to the canonical path of the file.  A file's lines are drawn   *)
(* when preprocess_file reads them.                                        *)
(***************************************************************************)
EntryPath == "a.s8"

IncludeSpellings == {"a.s8", "b.s8", "./b.s8", "c.s8", "missing.s8"}

canonical_or_absolute ==
    [q \in IncludeSpellings |->
        CASE q = "a.s8" -> "/src/a.s8"
          [] q = "b.s8" -> "/src/b.s8"
          [] q = "./b.s8" -> "/src/b.s8"
          [] q = "c.s8" -> "/src/c.s8"
          [] q = "missing.s8" -> "/src/missing.s8"]

\* fs::exists on the operand joined to the directory of the including file
FileExists(q) == q # "missing.s8"

\* the kinds of line a file can hold: plain text, a malformed .include, or
\* .include "<spelling>"
LineKinds == {"text", "badinclude"} \cup IncludeSpellings

\* the two checks at the head of preprocess_file: the scan of stack_paths,
\* then the include-once set
enter_check_m9(canon, sp, inc) ==
    IF canon \in inc
    THEN [err |-> "MultipleInclusion", chain |-> <<>>]
    ELSE IF canon \in Range(sp)
         THEN [err |-> "IncludeCycle", chain |-> sp \o <<canon>>]
         ELSE [err |-> "", chain |-> <<>>]

enter_check_m10(canon, sp, inc) ==
    IF canon \in Range(sp)
    THEN [err |-> "IncludeCycle", chain |-> sp \o <<canon>>]
    ELSE [err |-> "", chain |-> <<>>]

enter_check(canon, sp, inc) ==
    IF canon \in Range(sp)
    THEN [err |-> "IncludeCycle", chain |-> sp \o <<canon>>]
    ELSE IF canon \in inc
         THEN [err |-> "MultipleInclusion", chain |-> <<>>]
         ELSE [err |-> "", chain |-> <<>>]

\* entry of preprocess_file(call): the checks, then the insertion into the
\* include-once set and the push on the stack
PreEnter ==
    /\ p_pc = "run"
    /\ call # ""
    /\ LET canon == canonical_or_absolute[call]
           chk   == enter_check(canon, stack_paths, included_set)
       IN IF chk.err # ""
          THEN /\ p_pc' = "error"
               /\ p_err' = chk.err
               /\ p_chain' = chk.chain
               /\ UNCHANGED <<call, stack_paths, included_set, frames, expanded>>
          ELSE /\ included_set' = included_set \cup {canon}
               /\ stack_paths' = Append(stack_paths, canon)
               /\ frames' = Append(frames, [file |-> canon, line_no |-> 0])
               /\ call' = ""
               /\ UNCHANGED <<p_pc, p_err, p_chain, expanded>>

\* one iteration of the getline loop of the innermost call
PreLine(kind) ==
    /\ p_pc = "run"
    /\ call = ""
    /\ frames # <<>>
    /\ frames[Len(frames)].line_no < MaxFileLines
    /\ LET fr == frames[Len(frames)]
           no == fr.line_no + 1
       IN /\ frames' = [frames EXCEPT ![Len(frames)].line_no = no]
          /\ CASE kind = "text" ->
                    /\ expanded' = Append(expanded, [file |-> fr.file, line_no |-> no])
                    /\ UNCHANGED <<p_pc, p_err, call>>
               [] kind = "badinclude" ->
                    /\ p_pc' = "error"
                    /\ p_err' = "InvalidIncludeSyntax"
                    /\ UNCHANGED <<expanded, call>>
               [] OTHER ->
                    IF FileExists(kind)
                    THEN /\ call' = kind
                         /\ UNCHANGED <<p_pc, p_err, expanded>>
                    ELSE /\ p_pc' = "error"
                         /\ p_err' = "FileNotFound"
                         /\ UNCHANGED <<expanded, call>>
    /\ UNCHANGED <<p_chain, stack_paths, included_set>>

\* the return of preprocess_file without stack_paths.pop_back()
PreReturn_m ==
    /\ p_pc = "run"
    /\ call = ""
    /\ frames # <<>>
    /\ frames' = SubSeq(frames, 1, Len(frames) - 1)
    /\ p_pc' = IF Len(frames) = 1 THEN "done" ELSE "run"
    /\ UNCHANGED <<p_err, p_chain, call, stack_paths, included_set, expanded>>

\* end of the file of the innermost call: stack_paths.pop_back() and return
PreReturn ==
    /\ p_pc = "run"
    /\ call = ""
    /\ frames # <<>>
    /\ stack_paths' = SubSeq(stack_paths, 1, Len(stack_paths) - 1)
    /\ frames' = SubSeq(frames, 1, Len(frames) - 1)
    /\ p_pc' = IF Len(frames) = 1 THEN "done" ELSE "run"
    /\ UNCHANGED <<p_err, p_chain, call, included_set, expanded>>

\* main: preprocess_file(entry, entry, expanded, stack_paths, included_set, {})
PreInit ==
    /\ p_pc = "run"
    /\ p_err = ""
    /\ p_chain = <<>>
    /\ call = EntryPath
    /\ stack_paths = <<>>
    /\ included_set = {}
    /\ frames = <<>>
    /\ expanded = <<>>

PreIdle ==
    /\ p_pc = "off"
    /\ p_err = ""
    /\ p_chain = <<>>
    /\ call = ""
    /\ stack_paths = <<>>
    /\ included_set = {}
    /\ frames = <<>>
    /\ expanded = <<>>

PreNext ==
    \/ PreEnter
    \/ \E kind \in LineKinds : PreLine(kind)
    \/ PreReturn

(***************************************************************************)
(* The virtual machine.  A machine is a record: the registers, the memory  *)
(* array, the STOP trigger, the one-byte keyboard queue and the function-  *)
(* local statics of the instruction handlers, together with the host's     *)
(* standard input (the bytes not yet read) and the bytes written to the    *)
(* terminal.  Two ghost fields record undefined behaviour: oob is set by   *)
(* an index into mem outside 0..MEM_SIZE-1, ub by a division by zero or an *)
(* out-of-range shift; hit says whether the last instruction did either.   *)
(***************************************************************************)
\* the instruction and register codes of definitions.h (LOADR is defined by
\* the machine itself)
Op ==
    [LOAD |-> 1, STORE |-> 2, STORER |-> 3, SET |-> 4, INC |-> 5, DEC |-> 6,
     JMP |-> 7, CMP |-> 8, CMPR |-> 9, JZ |-> 10, JNZ |-> 11, JC |-> 12,
     JNC |-> 13, ADD |-> 14, ADDR |-> 15, PUSH |-> 16, POP |-> 17,
     CALL |-> 18, RET |-> 19, SUB |-> 20, SUBR |-> 21, MUL |-> 22,
     MULR |-> 23, DIV |-> 24, DIVR |-> 25, SHL |-> 26, SHR |-> 27,
     LOADR |-> 28, HALT |-> 0, NOP |-> 255]

Rc == [IR0 |-> 242, IR7 |-> 249, IIP |-> 250, ISP |-> 251, IBP |-> 252]

\* the MMIO window
Mmio ==
    [KBD_STATUS |-> 65280, KBD_DATA |-> 65281, TTY_STATUS |-> 65282,
     TTY_DATA |-> 65283]

\* what an access outside the array can do: the two bytes an out-of-bounds
\* read may return, the object an out-of-bounds write lands on, and whether a
\* division by zero traps
UBChoices ==
    [rd : {0, 19, 255} \X {0, 19, 255}, wr : {"drop", "c", "STOP"}, trap : BOOLEAN]

u0 == [rd |-> <<0, 0>>, wr |-> "drop", trap |-> FALSE]

Statics0 ==
    [store_value |-> 0, storer_value |-> 0, storer_addr |-> 0,
     cmpr_value |-> 0, addr_value |-> 0, subr_value |-> 0,
     mul_result |-> 0, mulr_value |-> 0, mulr_result |-> 0,
     div_result |-> 0, div_rest |-> 0,
     divr_value |-> 0, divr_result |-> 0, divr_rest |-> 0]

\* a process that has just started: zero-initialised statics, empty queue
Process0(input, term) ==
    [r |-> [i \in 0..7 |-> 0], ip |-> 0, sp |-> 0, bp |-> 0, c |-> 0,
     mem |-> EmptyMem, STOP |-> 0, g_kbd_queued |-> -1, st |-> Statics0,
     stdin |-> input, tty |-> term,
     oob |-> FALSE, ub |-> FALSE, hit |-> FALSE]

init_machine(w) ==
    [w EXCEPT !.STOP = 0, !.mem = EmptyMem, !.ip = 0, !.sp = MEM_SIZE,
              !.bp = MEM_SIZE, !.c = 0, !.r = [i \in 0..7 |-> 0]]

\* fread(mem, 1, MEM_SIZE, f) of an image file
load_bin_file(w, image) == [w EXCEPT !.mem = image]

InBounds(idx) == idx >= 0 /\ idx < MEM_SIZE

\* mem[idx] as an rvalue
mem_at(w, idx, u) ==
    IF InBounds(idx) THEN MemGet(w.mem, idx) ELSE u.rd[(idx % 2) + 1]

\* mem[idx] = v
mem_put(w, idx, v, u) ==
    IF InBounds(idx)
    THEN [w EXCEPT !.mem = MemSet(@, idx, v)]
    ELSE CASE u.wr = "drop" -> [w EXCEPT !.oob = TRUE, !.hit = TRUE]
           [] u.wr = "c"    -> [w EXCEPT !.oob = TRUE, !.hit = TRUE, !.c = v]
           [] u.wr = "STOP" -> [w EXCEPT !.oob = TRUE, !.hit = TRUE, !.STOP = v]

\* the ghost record of the reads mem[idx], idx in S
touch(w, S) ==
    IF \E idx \in S : ~InBounds(idx)
    THEN [w EXCEPT !.oob = TRUE, !.hit = TRUE]
    ELSE w

fill_kbd_queue_if_needed(w) ==
    IF w.g_kbd_queued # -1 THEN w
    ELSE IF w.stdin = <<>> THEN w
    ELSE [w EXCEPT !.g_kbd_queued = Head(w.stdin) % 128,
                   !.stdin = Tail(w.stdin)]

\* the queued byte is left in the queue
pop_kbd_byte_m(w) ==
    LET w1 == fill_kbd_queue_if_needed(w)
    IN IF w1.g_kbd_queued = -1
       THEN [w |-> w1, v |-> 0]
       ELSE [w |-> w1, v |-> w1.g_kbd_queued]

pop_kbd_byte(w) ==
    LET w1 == fill_kbd_queue_if_needed(w)
    IN IF w1.g_kbd_queued = -1
       THEN [w |-> w1, v |-> 0]
       ELSE [w |-> [w1 EXCEPT !.g_kbd_queued = -1], v |-> w1.g_kbd_queued]

mmio_read(w, address) ==
    IF address = Mmio.KBD_STATUS
    THEN LET w1 == fill_kbd_queue_if_needed(w)
         IN [w |-> w1, v |-> IF w1.g_kbd_queued # -1 THEN 1 ELSE 0]
    ELSE IF address = Mmio.KBD_DATA THEN pop_kbd_byte(w)
    ELSE IF address = Mmio.TTY_STATUS THEN [w |-> w, v |-> 1]
    ELSE [w |-> w, v |-> 0]

mmio_write(w, address, value) ==
    IF address = Mmio.TTY_DATA THEN [w EXCEPT !.tty = Append(@, value)] ELSE w

mem_read(w, address) ==
    IF address >= Mmio.KBD_STATUS /\ address <= Mmio.TTY_DATA THEN mmio_read(w, address)
    ELSE IF address >= MEM_SIZE THEN [w |-> w, v |-> 0]
    ELSE [w |-> w, v |-> MemGet(w.mem, address)]

\* every address takes the RAM path, the MMIO window included
mem_write_m(w, address, value) ==
    IF address >= MEM_SIZE THEN w
    ELSE [mmio_write(w, address, value) EXCEPT !.mem = MemSet(@, address, value)]

mem_write(w, address, value) ==
    IF address >= Mmio.KBD_STATUS /\ address <= Mmio.TTY_DATA THEN mmio_write(w, address, value)
    ELSE IF address >= MEM_SIZE THEN w
    ELSE [w EXCEPT !.mem = MemSet(@, address, value)]

\* the switch over a register token that every handler repeats
is_reg(tok) == tok >= Rc.IR0 /\ tok <= Rc.IR7
reg(w, tok) == w.r[tok - Rc.IR0]
set_reg(w, tok, v) == IF is_reg(tok) THEN [w EXCEPT !.r[tok - Rc.IR0] = v] ELSE w
\* the default branches without STOP = 1
unknown_m(w, toks) == w

unknown(w, toks) ==
    IF \E i \in 1..Len(toks) : ~is_reg(toks[i]) THEN [w EXCEPT !.STOP = 1] ELSE w

U16(v) == v % 65536
U8(v) == v % 256
advance(w, n) == [w EXCEPT !.ip = U16(@ + n)]
fetch(w, k, u) == mem_at(w, w.ip + k, u)

(***************************************************************************)
(* The instruction handlers.  Operands are read with mem[ip + k]; only     *)
(* the data accesses of LOAD, LOADR, STORE and STORER go through mem_read  *)
(* and mem_write.                                                          *)
(***************************************************************************)
load_instruction(w, u) ==
    LET memory_source == U16(fetch(w, 1, u) * 256 + fetch(w, 2, u))
        rd == mem_read(w, memory_source)
        destination == fetch(w, 3, u)
    IN advance(unknown(set_reg(rd.w, destination, rd.v), <<destination>>), 4)

store_instruction(w, u) ==
    LET source == fetch(w, 1, u)
        memory_destination == U16(fetch(w, 2, u) * 256 + fetch(w, 3, u))
        value == IF is_reg(source) THEN reg(w, source) ELSE w.st.store_value
        w1 == unknown([w EXCEPT !.st.store_value = value], <<source>>)
    IN advance(mem_write(w1, memory_destination, value), 4)

storer_instruction(w, u) ==
    LET source_register == fetch(w, 1, u)
        destination_register_h == fetch(w, 2, u)
        destination_register_l == fetch(w, 3, u)
        value == IF is_reg(source_register) THEN reg(w, source_register)
                 ELSE w.st.storer_value
        a1 == IF is_reg(destination_register_h)
              THEN reg(w, destination_register_h) * 256
              ELSE w.st.storer_addr
        destinationAddress ==
              IF is_reg(destination_register_l)
              THEN U16(a1 + reg(w, destination_register_l))
              ELSE a1
        w1 == unknown([w EXCEPT !.st.storer_value = value,
                                !.st.storer_addr = destinationAddress],
                      <<source_register, destination_register_h,
                        destination_register_l>>)
    IN advance(mem_write(w1, destinationAddress, value), 4)

loadr_instruction(w, u) ==
    LET destination_register == fetch(w, 1, u)
        source_register_h == fetch(w, 2, u)
        source_register_l == fetch(w, 3, u)
        a1 == IF is_reg(source_register_h)
              THEN reg(w, source_register_h) * 256 ELSE 0
        source_address ==
              IF is_reg(source_register_l)
              THEN U16(a1 + reg(w, source_register_l)) ELSE a1
        rd == mem_read(w, source_address)
    IN advance(unknown(set_reg(rd.w, destination_register, rd.v),
                       <<source_register_h, source_register_l,
                         destination_register>>), 4)

set_instruction(w, u) ==
    LET value == fetch(w, 1, u)
        destination == fetch(w, 2, u)
    IN advance(unknown(set_reg(w, destination, value), <<destination>>), 3)

\* the two-byte pushes of IP, SP and BP: low byte at sp, high byte at sp - 1
push16(w, x, u) ==
    LET w1 == mem_put(w, w.sp, Lo(x), u)
        w2 == mem_put(w1, w.sp - 1, Hi(x), u)
    IN advance([w2 EXCEPT !.sp = U16(w.sp - 1)], 2)

push_instruction_m(w, u) ==
    LET w1 == [w EXCEPT !.sp = U16(@ - 1)]
        source == fetch(w, 1, u)
    IN IF source = Rc.IIP THEN push16(w1, w1.ip, u)
       ELSE IF source = Rc.ISP THEN push16(w1, w1.sp, u)
       ELSE IF source = Rc.IBP THEN push16(w1, w1.bp, u)
       ELSE LET value == IF is_reg(source) THEN reg(w, source) ELSE 0
            IN advance(mem_put(unknown(w1, <<source>>), w.sp, value, u), 2)

push_instruction(w, u) ==
    LET w1 == [w EXCEPT !.sp = U16(@ - 1)]
        source == fetch(w, 1, u)
    IN IF source = Rc.IIP THEN push16(w1, w1.ip, u)
       ELSE IF source = Rc.ISP THEN push16(w1, w1.sp, u)
       ELSE IF source = Rc.IBP THEN push16(w1, w1.bp, u)
       ELSE LET value == IF is_reg(source) THEN reg(w, source) ELSE 0
            IN advance(mem_put(unknown(w1, <<source>>), w1.sp, value, u), 2)

pop_instruction(w, u) ==
    LET source == fetch(w, 1, u)
        w16 == touch(w, {w.sp, w.sp + 1})
        value16 == U16(mem_at(w, w.sp, u) * 256 + mem_at(w, w.sp + 1, u))
    IN IF source = Rc.IIP
       THEN [w16 EXCEPT !.ip = U16(value16 + 2), !.sp = U16(@ + 2)]
       ELSE IF source = Rc.ISP
       THEN advance([w16 EXCEPT !.sp = U16(value16 + 2)], 2)
       ELSE IF source = Rc.IBP
       THEN advance([w16 EXCEPT !.bp = value16, !.sp = U16(@ + 2)], 2)
       ELSE LET value == mem_at(w, w.sp, u)
                w1 == unknown(set_reg(touch(w, {w.sp}), source, value), <<source>>)
            IN advance([w1 EXCEPT !.sp = U16(@ + 1)], 2)

inc_instruction(w, u) ==
    LET what == fetch(w, 1, u)
    IN IF is_reg(what)
       THEN LET v == U8(reg(w, what) + 1)
            IN advance([set_reg(w, what, v) EXCEPT !.c = IF v = 0 THEN 1 ELSE 0], 2)
       ELSE advance(unknown(w, <<what>>), 2)

\* the carry set when the result is zero instead of on the wrap to 0xFF
dec_instruction_m(w, u) ==
    LET what == fetch(w, 1, u)
    IN IF is_reg(what)
       THEN LET v == U8(reg(w, what) - 1)
            IN advance([set_reg(w, what, v) EXCEPT !.c = IF v = 0 THEN 1 ELSE 0], 2)
       ELSE advance(unknown(w, <<what>>), 2)

dec_instruction(w, u) ==
    LET what == fetch(w, 1, u)
    IN IF is_reg(what)
       THEN LET v == U8(reg(w, what) - 1)
            IN advance([set_reg(w, what, v) EXCEPT !.c = IF v = 255 THEN 1 ELSE 0], 2)
       ELSE advance(unknown(w, <<what>>), 2)

jmp_instruction(w, u) ==
    [w EXCEPT !.ip = U16(fetch(w, 1, u) * 256 + fetch(w, 2, u))]

\* the carry taken from r > value
compare_m(w, tok, value) ==
    IF is_reg(tok)
    THEN [set_reg(w, tok, U8(reg(w, tok) - value))
            EXCEPT !.c = IF reg(w, tok) > value THEN 0 ELSE 1]
    ELSE unknown(w, <<tok>>)

\* c = r >= value ? 0 : 1; r -= value
compare(w, tok, value) ==
    IF is_reg(tok)
    THEN [set_reg(w, tok, U8(reg(w, tok) - value))
            EXCEPT !.c = IF reg(w, tok) >= value THEN 0 ELSE 1]
    ELSE unknown(w, <<tok>>)

cmp_instruction(w, u) ==
    LET source_register == fetch(w, 1, u)
        value == fetch(w, 2, u)
    IN advance(compare(w, source_register, value), 3)

cmpr_instruction(w, u) ==
    LET register0 == fetch(w, 1, u)
        register1 == fetch(w, 2, u)
        value == IF is_reg(register1) THEN reg(w, register1) ELSE w.st.cmpr_value
        w1 == unknown([w EXCEPT !.st.cmpr_value = value], <<register1>>)
    IN advance(compare(w1, register0, value), 3)

jz_instruction(w, u) ==
    LET sourceRegister == fetch(w, 1, u)
        jumpAddress == U16(fetch(w, 2, u) * 256 + fetch(w, 3, u))
    IN IF is_reg(sourceRegister) /\ reg(w, sourceRegister) = 0
       THEN [w EXCEPT !.ip = jumpAddress]
       ELSE advance(unknown(w, <<sourceRegister>>), 4)

\* a not-taken jump advances by the 3 bytes of JC
jnz_instruction_m(w, u) ==
    LET source_register == fetch(w, 1, u)
        jump_address == U16(fetch(w, 2, u) * 256 + fetch(w, 3, u))
    IN IF is_reg(source_register) /\ reg(w, source_register) # 0
       THEN [w EXCEPT !.ip = jump_address]
       ELSE advance(unknown(w, <<source_register>>), 3)

jnz_instruction(w, u) ==
    LET source_register == fetch(w, 1, u)
        jump_address == U16(fetch(w, 2, u) * 256 + fetch(w, 3, u))
    IN IF is_reg(source_register) /\ reg(w, source_register) # 0
       THEN [w EXCEPT !.ip = jump_address]
       ELSE advance(unknown(w, <<source_register>>), 4)

jc_instruction(w, u) ==
    LET jumpAddress == U16(fetch(w, 1, u) * 256 + fetch(w, 2, u))
    IN IF w.c # 0 THEN [w EXCEPT !.ip = jumpAddress] ELSE advance(w, 3)

jnc_instruction(w, u) ==
    LET jumpAddress == U16(fetch(w, 1, u) * 256 + fetch(w, 2, u))
    IN IF w.c = 0 THEN [w EXCEPT !.ip = jumpAddress] ELSE advance(w, 3)

\* c = r + value > 0xFF ? 1 : 0; r += value
add_to(w, tok, value) ==
    IF is_reg(tok)
    THEN [set_reg(w, tok, U8(reg(w, tok) + value))
            EXCEPT !.c = IF reg(w, tok) + value > 255 THEN 1 ELSE 0]
    ELSE unknown(w, <<tok>>)

add_instruction(w, u) ==
    LET value == fetch(w, 1, u)
        dest_register == fetch(w, 2, u)
    IN advance(add_to(w, dest_register, value), 3)

addr_instruction(w, u) ==
    LET sourceRegister == fetch(w, 1, u)
        destRegister == fetch(w, 2, u)
        value == IF is_reg(sourceRegister) THEN reg(w, sourceRegister)
                 ELSE w.st.addr_value
        w1 == unknown([w EXCEPT !.st.addr_value = value], <<sourceRegister>>)
    IN advance(add_to(w1, destRegister, value), 3)

call_instruction_m(w, u) ==
    LET callAddress == U16(fetch(w, 1, u) * 256 + fetch(w, 2, u))
        returnAddress == U16(w.ip + 3)
        w1 == mem_put(w, w.sp - 2, Lo(returnAddress), u)
        w2 == mem_put(w1, w.sp - 1, Hi(returnAddress), u)
    IN [w2 EXCEPT !.sp = U16(w.sp - 2), !.ip = callAddress]

call_instruction(w, u) ==
    LET callAddress == U16(fetch(w, 1, u) * 256 + fetch(w, 2, u))
        returnAddress == U16(w.ip + 3)
        w1 == mem_put(w, w.sp - 2, Hi(returnAddress), u)
        w2 == mem_put(w1, w.sp - 1, Lo(returnAddress), u)
    IN [w2 EXCEPT !.sp = U16(w.sp - 2), !.ip = callAddress]

ret_instruction(w, u) ==
    [touch(w, {w.sp, w.sp + 1})
       EXCEPT !.ip = U16(mem_at(w, w.sp, u) * 256 + mem_at(w, w.sp + 1, u)),
              !.sp = U16(@ + 2)]

\* c = r < value ? 1 : 0; r -= value
sub_from(w, tok, value) ==
    IF is_reg(tok)
    THEN [set_reg(w, tok, U8(reg(w, tok) - value))
            EXCEPT !.c = IF reg(w, tok) < value THEN 1 ELSE 0]
    ELSE unknown(w, <<tok>>)

sub_instruction(w, u) ==
    LET value == fetch(w, 1, u)
        destRegister == fetch(w, 2, u)
    IN advance(sub_from(w, destRegister, value), 3)

subr_instruction(w, u) ==
    LET source_register == fetch(w, 1, u)
        dest_register == fetch(w, 2, u)
        value == IF is_reg(source_register) THEN reg(w, source_register)
                 ELSE w.st.subr_value
        w1 == unknown([w EXCEPT !.st.subr_value = value], <<source_register>>)
    IN advance(sub_from(w1, dest_register, value), 3)

mul_instruction_m(w, u) ==
    LET value == fetch(w, 1, u)
        dest_register_h == fetch(w, 2, u)
        dest_register_l == fetch(w, 3, u)
        result == IF is_reg(dest_register_l)
                  THEN reg(w, dest_register_l) * value
                  ELSE w.st.mul_result
        w1 == unknown(set_reg([w EXCEPT !.st.mul_result = result],
                              dest_register_h, Hi(result)),
                      <<dest_register_h>>)
        w2 == [w1 EXCEPT !.c = IF result > 255 THEN 1 ELSE 0]
    IN advance(unknown(set_reg(w2, dest_register_l, Lo(result)),
                       <<dest_register_l>>), 4)

mul_instruction(w, u) ==
    LET value == fetch(w, 1, u)
        dest_register_h == fetch(w, 2, u)
        dest_register_l == fetch(w, 3, u)
        result == IF is_reg(dest_register_l)
                  THEN reg(w, dest_register_l) * value
                  ELSE w.st.mul_result
        w1 == unknown(set_reg([w EXCEPT !.st.mul_result = result],
                              dest_register_l, Lo(result)),
                      <<dest_register_l>>)
        w2 == [w1 EXCEPT !.c = IF result > 255 THEN 1 ELSE 0]
    IN advance(unknown(set_reg(w2, dest_register_h, Hi(result)),
                       <<dest_register_h>>), 4)

mulr_instruction(w, u) ==
    LET srcRegister == fetch(w, 1, u)
        destRegisterH == fetch(w, 2, u)
        destRegisterL == fetch(w, 3, u)
        value == IF is_reg(srcRegister) THEN reg(w, srcRegister)
                 ELSE w.st.mulr_value
        result == IF is_reg(destRegisterL)
                  THEN U16(reg(w, destRegisterL) * value)
                  ELSE w.st.mulr_result
        w1 == unknown(set_reg([w EXCEPT !.st.mulr_value = value,
                                        !.st.mulr_result = result],
                              destRegisterL, Lo(result)),
                      <<srcRegister, destRegisterL>>)
        w2 == [w1 EXCEPT !.c = IF result > 255 THEN 1 ELSE 0]
    IN advance(unknown(set_reg(w2, destRegisterH, Hi(result)),
                       <<destRegisterH>>), 4)

divide_m(w, value, tok_result, tok_rest, result0, rest0, u) ==
    IF is_reg(tok_result) /\ value = 0
    THEN IF u.trap
         THEN [w |-> [w EXCEPT !.STOP = 1, !.ub = TRUE, !.hit = TRUE],
               result |-> result0, rest |-> rest0, trapped |-> TRUE]
         ELSE [w |-> unknown(set_reg(set_reg([w EXCEPT !.ub = TRUE, !.hit = TRUE],
                                             tok_result, u.rd[1]),
                                     tok_rest, u.rd[2]), <<tok_rest>>),
               result |-> u.rd[1], rest |-> u.rd[2], trapped |-> FALSE]
    ELSE LET result == IF is_reg(tok_result)
                       THEN reg(w, tok_result) \div value ELSE result0
             rest == IF is_reg(tok_result)
                     THEN result % value ELSE rest0
         IN [w |-> unknown(set_reg(set_reg(w, tok_result, result), tok_rest, rest),
                           <<tok_result, tok_rest>>),
             result |-> result, rest |-> rest, trapped |-> FALSE]

\* result = r / value; rest = r % value; r = result, and then the register
\* of the remainder; a zero divisor is undefined: the process traps, or the
\* quotient and the remainder are whatever the hardware leaves
divide(w, value, tok_result, tok_rest, result0, rest0, u) ==
    IF is_reg(tok_result) /\ value = 0
    THEN IF u.trap
         THEN [w |-> [w EXCEPT !.STOP = 1, !.ub = TRUE, !.hit = TRUE],
               result |-> result0, rest |-> rest0, trapped |-> TRUE]
         ELSE [w |-> unknown(set_reg(set_reg([w EXCEPT !.ub = TRUE, !.hit = TRUE],
                                             tok_result, u.rd[1]),
                                     tok_rest, u.rd[2]), <<tok_rest>>),
               result |-> u.rd[1], rest |-> u.rd[2], trapped |-> FALSE]
    ELSE LET result == IF is_reg(tok_result)
                       THEN reg(w, tok_result) \div value ELSE result0
             rest == IF is_reg(tok_result)
                     THEN reg(w, tok_result) % value ELSE rest0
         IN [w |-> unknown(set_reg(set_reg(w, tok_result, result), tok_rest, rest),
                           <<tok_result, tok_rest>>),
             result |-> result, rest |-> rest, trapped |-> FALSE]

divInstruction(w, u) ==
    LET value == fetch(w, 1, u)
        dest_register_result == fetch(w, 2, u)
        dest_register_rest == fetch(w, 3, u)
        d == divide(w, value, dest_register_result, dest_register_rest,
                    w.st.div_result, w.st.div_rest, u)
        w1 == [d.w EXCEPT !.st.div_result = d.result, !.st.div_rest = d.rest]
    IN IF d.trapped THEN w1 ELSE advance(w1, 4)

divr_instruction(w, u) ==
    LET src_register == fetch(w, 1, u)
        value == IF is_reg(src_register) THEN reg(w, src_register)
                 ELSE w.st.divr_value
        dest_register_result == fetch(w, 2, u)
        dest_register_rest == fetch(w, 3, u)
        d == divide(unknown(w, <<src_register>>), value, dest_register_result,
                    dest_register_rest, w.st.divr_result, w.st.divr_rest, u)
        w1 == [d.w EXCEPT !.st.divr_value = value,
                          !.st.divr_result = d.result, !.st.divr_rest = d.rest]
    IN IF d.trapped THEN w1 ELSE advance(w1, 4)

\* c = (r >> (val - 1)) % 2; r >>= val, on a byte promoted to int: a count
\* of 0 or of 32 and more is undefined
shrInstruction(w, u) ==
    LET val == fetch(w, 1, u)
        what == fetch(w, 2, u)
        ShiftRight(x, k) == IF k >= 8 THEN 0 ELSE x \div (2 ^ k)
    IN IF ~is_reg(what) THEN advance(unknown(w, <<what>>), 3)
       ELSE IF val = 0 \/ val >= 32
       THEN advance([set_reg(w, what, u.rd[2])
                       EXCEPT !.c = u.rd[1] % 2, !.ub = TRUE, !.hit = TRUE], 3)
       ELSE advance([set_reg(w, what, ShiftRight(reg(w, what), val))
                       EXCEPT !.c = ShiftRight(reg(w, what), val - 1) % 2], 3)

\* c = r << (val - 1) > 127 ? 1 : 0; r <<= val: undefined as above, and when
\* the shifted int overflows
shl_instruction(w, u) ==
    LET val == fetch(w, 1, u)
        what == fetch(w, 2, u)
        Overflows(x, k) == x # 0 /\ k >= 24 /\ x * (2 ^ (k - 24)) >= 128
        Above127(x, k) == x # 0 /\ (k >= 7 \/ x * (2 ^ k) > 127)
        ShiftLeftByte(x, k) == IF k >= 8 THEN 0 ELSE U8(x * (2 ^ k))
    IN IF ~is_reg(what) THEN advance(unknown(w, <<what>>), 3)
       ELSE IF val = 0 \/ val >= 32 \/ Overflows(reg(w, what), val)
       THEN advance([set_reg(w, what, u.rd[2])
                       EXCEPT !.c = u.rd[1] % 2, !.ub = TRUE, !.hit = TRUE], 3)
       ELSE advance([set_reg(w, what, ShiftLeftByte(reg(w, what), val))
                       EXCEPT !.c = IF Above127(reg(w, what), val - 1)
                                    THEN 1 ELSE 0], 3)

\* the operand reads mem[ip + 1] .. mem[ip + n] of a handler
operands(w, n) == touch(w, {w.ip + k : k \in 1..n})

process_instruction(w0, u) ==
    LET w == touch([w0 EXCEPT !.hit = FALSE], {w0.ip})
        op == mem_at(w, w.ip, u)
    IN CASE op = Op.LOADR  -> loadr_instruction(operands(w, 3), u)
         [] op = Op.LOAD   -> load_instruction(operands(w, 3), u)
         [] op = Op.STORE  -> store_instruction(operands(w, 3), u)
         [] op = Op.STORER -> storer_instruction(operands(w, 3), u)
         [] op = Op.SET    -> set_instruction(operands(w, 2), u)
         [] op = Op.PUSH   -> push_instruction(operands(w, 1), u)
         [] op = Op.POP    -> pop_instruction(operands(w, 1), u)
         [] op = Op.INC    -> inc_instruction(operands(w, 1), u)
         [] op = Op.DEC    -> dec_instruction(operands(w, 1), u)
         [] op = Op.JMP    -> jmp_instruction(operands(w, 2), u)
         [] op = Op.CMP    -> cmp_instruction(operands(w, 2), u)
         [] op = Op.CMPR   -> cmpr_instruction(operands(w, 2), u)
         [] op = Op.JZ     -> jz_instruction(operands(w, 3), u)
         [] op = Op.JNZ    -> jnz_instruction(operands(w, 3), u)
         [] op = Op.JC     -> jc_instruction(operands(w, 2), u)
         [] op = Op.JNC    -> jnc_instruction(operands(w, 2), u)
         [] op = Op.ADD    -> add_instruction(operands(w, 2), u)
         [] op = Op.ADDR   -> addr_instruction(operands(w, 2), u)
         [] op = Op.CALL   -> call_instruction(operands(w, 2), u)
         [] op = Op.RET    -> ret_instruction(w, u)
         [] op = Op.SUB    -> sub_instruction(operands(w, 2), u)
         [] op = Op.SUBR   -> subr_instruction(operands(w, 2), u)
         [] op = Op.MUL    -> mul_instruction(operands(w, 3), u)
         [] op = Op.MULR   -> mulr_instruction(operands(w, 3), u)
         [] op = Op.DIV    -> divInstruction(operands(w, 3), u)
         [] op = Op.DIVR   -> divr_instruction(operands(w, 3), u)
         [] op = Op.SHL    -> shl_instruction(operands(w, 2), u)
         [] op = Op.SHR    -> shrInstruction(operands(w, 2), u)
         [] op = Op.NOP    -> advance(w, 1)
         [] OTHER       -> [w EXCEPT !.STOP = 1]

(***************************************************************************)
(* Snapshots.  A debug image file is the 27-byte header followed by the    *)
(* memory block; NoFile stands for a file that could not be written.       *)
(***************************************************************************)
NoFile == [hdr |-> <<>>, mem |-> EmptyMem, mem_len |-> -1]

write_u16_be(v) == <<(v \div 256) % 256, v % 256>>

read_u16_be_m(b) == b[2] * 256 + b[1]

read_u16_be(b) == b[1] * 256 + b[2]

save_debug_image(w) ==
    [hdr |-> <<83, 56, 68, 73>> \o <<1>> \o [i \in 1..8 |-> w.r[i - 1]]
             \o write_u16_be(w.ip) \o write_u16_be(w.sp) \o write_u16_be(w.bp)
             \o <<w.c>> \o <<0, 0, 0, 0, 0, 0, 0>>,
     mem |-> w.mem,
     mem_len |-> MEM_SIZE]

\* the fields are stored as they are read, so a short file restores a prefix
load_debug_image(w, f) ==
    LET n == Len(f.hdr)
        fail(x) == [ok |-> FALSE, w |-> x]
        w1 == [w EXCEPT !.r = [i \in 0..7 |-> IF 6 + i <= n THEN f.hdr[6 + i] ELSE @[i]]]
        w2 == [w1 EXCEPT !.ip = read_u16_be(SubSeq(f.hdr, 14, 15))]
        w3 == [w2 EXCEPT !.sp = read_u16_be(SubSeq(f.hdr, 16, 17))]
        w4 == [w3 EXCEPT !.bp = read_u16_be(SubSeq(f.hdr, 18, 19))]
        w5 == [w4 EXCEPT !.c = f.hdr[20]]
        w6 == [w5 EXCEPT !.mem =
                 [a \in {x \in DOMAIN f.mem : x < f.mem_len}
                        \cup {x \in DOMAIN w.mem : x >= f.mem_len} |->
                     IF a < f.mem_len THEN f.mem[a] ELSE w.mem[a]]]
    IN IF f = NoFile \/ n < 4 THEN fail(w)
       ELSE IF SubSeq(f.hdr, 1, 4) # <<83, 56, 68, 73>> THEN fail(w)
       ELSE IF n < 5 \/ f.hdr[5] # 1 THEN fail(w)
       ELSE IF n < 13 THEN fail(w1)
       ELSE IF n < 15 THEN fail(w1)
       ELSE IF n < 17 THEN fail(w2)
       ELSE IF n < 19 THEN fail(w3)
       ELSE IF n < 20 THEN fail(w4)
       ELSE IF n < 27 THEN fail(w5)
       ELSE IF f.mem_len < MEM_SIZE THEN fail(w6)
       ELSE [ok |-> TRUE, w |-> [w6 EXCEPT !.STOP = 0]]

(***************************************************************************)
(* Images and keyboard input the machine is started on.                    *)
(***************************************************************************)
Bytes(base, seq) ==
    [a \in {base + i - 1 : i \in {j \in 1..Len(seq) : seq[j] # 0}} |-> seq[a - base + 1]]

Join(m1, m2) ==
    [a \in DOMAIN m1 \cup DOMAIN m2 |-> IF a \in DOMAIN m2 THEN m2[a] ELSE m1[a]]

\* the images the machine is started on
Programs ==
    LET
    Stub == Bytes(0, <<Op.JMP, 1, 0>>)
    \* poll the keyboard, read a byte and echo it, twice
    ProgEcho ==
        Join(Stub, Bytes(256,
            <<Op.LOAD, 255, 0, 242,   Op.LOAD, 255, 1, 243,   Op.STORE, 243, 255, 3,
              Op.LOAD, 255, 0, 242,   Op.LOAD, 255, 1, 244,   Op.STORE, 244, 255, 3,
              Op.HALT>>))
    \* a counted loop around a subroutine that uses the stack
    ProgLoop ==
        Join(Join(Stub, Bytes(256,
            <<Op.SET, 3, 242,   Op.CALL, 2, 0,   Op.DEC, 242,   Op.JNZ, 242, 1, 3,   Op.HALT>>)),
             Bytes(512, <<Op.PUSH, 242,   Op.INC, 243,   Op.POP, 244,   Op.RET>>))
    \* RET on the empty stack
    ProgRet == Bytes(0, <<Op.RET>>)
    \* the stack pointer steered into the MMIO window
    ProgStackMmio ==
        Bytes(0, <<Op.SET, 2, 242,   Op.PUSH, 242,   Op.SET, 255, 242,   Op.PUSH, 242,
                   Op.POP, 251,   Op.SET, 65, 242,   Op.PUSH, 242,   Op.HALT>>)
    \* a STORE whose register token is not a register
    ProgBadReg ==
        Join(Stub, Bytes(256,
            <<Op.SET, 65, 242,   Op.STORE, 242, 3, 0,   Op.NOP,   Op.STORE, 0, 255, 3>>))
    \* arithmetic, shifts, compares and the 16-bit pushes
    ProgArith ==
        Join(Stub, Bytes(256,
            <<Op.SET, 238, 242,   Op.SET, 238, 243,   Op.MUL, 238, 242, 243,
              Op.DIV, 6, 242, 243,   Op.SHL, 1, 242,   Op.SHR, 2, 242,
              Op.CMP, 242, 16,   Op.JC, 1, 27,   Op.NOP,
              Op.ADD, 255, 242,   Op.SUB, 10, 243,   Op.ADDR, 242, 243,
              Op.SUBR, 242, 243,   Op.CMPR, 243, 242,   Op.JNC, 1, 46,   Op.NOP,
              Op.MULR, 242, 243, 244,   Op.SET, 7, 242,   Op.DIVR, 242, 243, 244,
              Op.PUSH, 250,   Op.POP, 252,   Op.PUSH, 252,   Op.PUSH, 251,   Op.POP, 242,   Op.POP, 243,
              Op.SET, 3, 245,   Op.SET, 0, 246,   Op.STORER, 243, 245, 246,
              Op.LOADR, 247, 245, 246,   Op.JZ, 246, 1, 88,   Op.NOP,   Op.JNZ, 246, 0, 0,
              Op.HALT>>))
    \* a zero divisor and a zero shift count
    ProgUndefined ==
        Bytes(0, <<Op.SET, 9, 242,   Op.SHL, 0, 242,   Op.DIV, 0, 242, 243,   Op.HALT>>)
    \* execution that runs off the top of memory
    ProgTop ==
        Join(Bytes(0, <<Op.JMP, 255, 252>>), Bytes(65532, <<Op.SET, 1, 242>>))
    IN {ProgEcho, ProgLoop, ProgRet, ProgStackMmio, ProgBadReg, ProgArith,
        ProgUndefined, ProgTop}

\* the addresses a breakpoint is put on: the first byte of every second
\* instruction or so of the programs above, and one that is never reached
BreakAddrs(image) ==
    {a \in {0, 3, 5, 256, 259, 260, 262, 263, 264, 268, 272, 512, 514} :
        a \in DOMAIN image}

Inputs == {<<>>, <<65>>, <<65, 194>>}

(***************************************************************************)
(* The processes.  main() initialises the machine, loads the image (or     *)
(* restores debug.img) and calls run(); the reference run of the same      *)
(* image on the same keyboard input, with no breakpoint, is taken first.   *)
(***************************************************************************)
\* one iteration of the loop of run() that does not hit the breakpoint
step(w, w2) ==
    LET w0 == process_instruction(w, u0)
    IN IF w0.hit
       THEN \E u \in UBChoices : w2 = process_instruction(w, u)
       ELSE w2 = w0

RefRun ==
    /\ v_pc = "ref"
    /\ ref.STOP = 0
    /\ ref_cycles < MaxCycles
    /\ step(ref, ref')
    /\ ref_cycles' = ref_cycles + 1
    /\ UNCHANGED <<v_pc, vm, break_enabled, break_addr, debug_img, disk_ok,
                   cycles, resumes>>

RefDone ==
    /\ v_pc = "ref"
    /\ ref.STOP # 0 \/ ref_cycles = MaxCycles
    /\ v_pc' = "run"
    /\ UNCHANGED <<vm, ref, break_enabled, break_addr, debug_img, disk_ok,
                   cycles, ref_cycles, resumes>>

\* the loop of run() without the breakpoint branch
Run_m ==
    /\ v_pc \in {"run", "resumed"}
    /\ vm.STOP = 0
    /\ cycles < MaxCycles
    /\ step(vm, vm')
    /\ cycles' = cycles + 1
    /\ UNCHANGED <<v_pc, ref, break_enabled, break_addr, debug_img, disk_ok,
                   ref_cycles, resumes>>

Run ==
    /\ v_pc \in {"run", "resumed"}
    /\ vm.STOP = 0
    /\ ~(break_enabled /\ vm.ip = break_addr)
    /\ cycles < MaxCycles
    /\ step(vm, vm')
    /\ cycles' = cycles + 1
    /\ UNCHANGED <<v_pc, ref, break_enabled, break_addr, debug_img, disk_ok,
                   ref_cycles, resumes>>

\* the breakpoint tested after the instruction instead of before it
Break_m ==
    /\ v_pc \in {"run", "resumed"}
    /\ vm.STOP = 0
    /\ break_enabled /\ vm.ip = break_addr
    /\ LET w == process_instruction(vm, u0)
       IN /\ debug_img' = IF disk_ok THEN save_debug_image(w) ELSE debug_img
          /\ vm' = [w EXCEPT !.STOP = 1]
    /\ v_pc' = "broke"
    /\ UNCHANGED <<ref, break_enabled, break_addr, disk_ok, cycles,
                   ref_cycles, resumes>>

\* the breakpoint branch of run(): notice, registers, snapshot, STOP
Break ==
    /\ v_pc \in {"run", "resumed"}
    /\ vm.STOP = 0
    /\ break_enabled /\ vm.ip = break_addr
    /\ debug_img' = IF disk_ok THEN save_debug_image(vm) ELSE debug_img
    /\ vm' = [vm EXCEPT !.STOP = 1]
    /\ v_pc' = "broke"
    /\ UNCHANGED <<ref, break_enabled, break_addr, disk_ok, cycles,
                   ref_cycles, resumes>>

\* a new process started on debug.img, with a breakpoint b or none (-1)
Resume(b) ==
    /\ v_pc = "broke"
    /\ resumes < MaxResumes
    /\ LET w == init_machine(Process0(vm.stdin, vm.tty))
           ld == load_debug_image(w, debug_img)
       IN IF ld.ok
          THEN /\ vm' = ld.w
               /\ v_pc' = "resumed"
          ELSE /\ vm' = [ld.w EXCEPT !.STOP = 1]
               /\ v_pc' = "exited"
    /\ break_enabled' = (b # -1)
    /\ break_addr' = IF b # -1 THEN b ELSE 0
    /\ resumes' = resumes + 1
    /\ UNCHANGED <<ref, debug_img, disk_ok, cycles, ref_cycles>>

VmInit ==
    /\ v_pc = "ref"
    /\ \E image \in Programs, input \in Inputs :
          /\ vm = load_bin_file(init_machine(Process0(input, <<>>)), image)
          /\ ref = vm
          /\ \E b \in BreakAddrs(image) \cup {-1} :
                /\ break_enabled = (b # -1)
                /\ break_addr = IF b # -1 THEN b ELSE 0
    /\ debug_img = NoFile
    /\ disk_ok \in BOOLEAN
    /\ cycles = 0
    /\ ref_cycles = 0
    /\ resumes = 0

VmIdle ==
    /\ v_pc = "off"
    /\ vm = Process0(<<>>, <<>>)
    /\ ref = vm
    /\ break_enabled = FALSE
    /\ break_addr = 0
    /\ debug_img = NoFile
    /\ disk_ok = TRUE
    /\ cycles = 0
    /\ ref_cycles = 0
    /\ resumes = 0

VmNext ==
    \/ RefRun
    \/ RefDone
    \/ Run
    \/ Break
    \/ \E b \in BreakAddrs(vm.mem) \cup {-1} : Resume(b)

(***************************************************************************)
(* The debug map.  A line of the .deb file is a sequence of characters.    *)
(* The assembler's records are pushed by pass 2 (deb_push) and by the      *)
(* entry stub (deb_push_implicit), write_debug_map writes the file, and    *)
(* the machine's load_deb_map parses it line by line.                      *)
(***************************************************************************)
HexDigits == <<"0", "1", "2", "3", "4", "5", "6", "7", "8", "9",
               "A", "B", "C", "D", "E", "F">>

\* value of a digit character in the given base, -1 if it is none
digit_val(ch, base) ==
    IF \E d \in 1..base : HexDigits[d] = ch
    THEN (CHOOSE d \in 1..base : HexDigits[d] = ch) - 1
    ELSE -1

RECURSIVE decimal(_)
decimal(n) ==
    IF n < 10 THEN <<HexDigits[n + 1]>>
    ELSE decimal(n \div 10) \o <<HexDigits[(n % 10) + 1]>>

hex2(v) == <<HexDigits[((v % 256) \div 16) + 1], HexDigits[(v % 16) + 1]>>

hex4(v) == hex2((v % 65536) \div 256) \o hex2(v % 256)

\* f.width(3); f.fill(' '); f << std::dec << n
width3(n) ==
    LET d == decimal(n)
    IN [i \in 1..(IF Len(d) < 3 THEN 3 - Len(d) ELSE 0) |-> " "] \o d

RECURSIVE hex_bytes(_)
hex_bytes(bytes) ==
    IF bytes = <<>> THEN <<>>
    ELSE IF Len(bytes) = 1 THEN hex2(bytes[1])
    ELSE hex2(bytes[1]) \o <<" ">> \o hex_bytes(Tail(bytes))

\* std::sort by address, CODE before DATA at the same address
\* the records written in the order they were pushed
sort_records_m(recs) == recs

RECURSIVE sort_records(_)
sort_records(recs) ==
    IF recs = <<>> THEN <<>>
    ELSE LET less(a, b) == IF a.addr # b.addr THEN a.addr < b.addr
                           ELSE a.kind = "CODE" /\ b.kind = "DATA"
             m == CHOOSE i \in 1..Len(recs) :
                     \A j \in 1..Len(recs) : ~less(recs[j], recs[i])
         IN <<recs[m]>> \o sort_records(SubSeq(recs, 1, m - 1)
                                         \o SubSeq(recs, m + 1, Len(recs)))

record_line(r) ==
    hex4(r.addr) \o <<" ", " ">> \o width3(Len(r.bytes)) \o <<" ", " ">>
    \o (IF r.kind = "CODE" THEN <<"C", "O", "D", "E">> ELSE <<"D", "A", "T", "A">>)
    \o <<" ", " ">> \o hex_bytes(r.bytes)
    \o <<" ", " ">> \o r.file \o <<":">> \o decimal(r.line_no)
    \o <<":", " ">> \o r.text

write_debug_map(recs) ==
    <<<<";", " ", "s", "8", "a", "s", "m", " ", "d", "e", "b", "u", "g",
        " ", "m", "a", "p", " ", "(", ".", "d", "e", "b", ")">>,
      <<";", " ", "T", "h", "i", "s", " ", "f", "i", "l", "e", " ", "i",
        "s", " ", "g", "e", "n", "e", "r", "a", "t", "e", "d", " ", "a",
        "u", "t", "o", "m", "a", "t", "i", "c", "a", "l", "l", "y", " ",
        "a", "n", "d", " ", "m", "a", "t", "c", "h", "e", "s", " ", "t",
        "h", "e", " ", "e", "m", "i", "t", "t", "e", "d", " ", "b", "i",
        "n", "a", "r", "y", " ", "i", "m", "a", "g", "e", " ", "e", "x",
        "a", "c", "t", "l", "y", ".">>,
      <<";", " ", "B", "i", "n", "a", "r", "y", ":", " ", "p", ".", "b",
        "i", "n">>,
      <<";", " ", "F", "o", "r", "m", "a", "t", ":", " ", "A", "A", "A",
        "A", " ", " ", "L", "E", "N", " ", " ", "K", "I", "N", "D", " ",
        " ", "B", "Y", "T", "E", "S", ".", ".", ".", " ", " ", "f", "i",
        "l", "e", ":", "l", "i", "n", "e", ":", " ", "o", "r", "i", "g",
        "i", "n", "a", "l", " ", "s", "o", "u", "r", "c", "e", " ", "l",
        "i", "n", "e">>,
      <<>>>>
    \o [i \in 1..Len(recs) |-> record_line(sort_records(recs)[i])]

\* " \t\r\n"
IsSpace(ch) == ch \in {" ", "\t", "\r", "\n"}

\* the elements a..b of s that exist (std::string::substr clips at the end)
substr(s, a, b) ==
    LET lo == IF a < 1 THEN 1 ELSE a
        hi == IF b > Len(s) THEN Len(s) ELSE b
    IN IF lo > hi THEN <<>> ELSE SubSeq(s, lo, hi)

trim(s) ==
    LET I == {i \in 1..Len(s) : ~IsSpace(s[i])}
    IN IF I = {} THEN <<>>
       ELSE substr(s, CHOOSE i \in I : \A j \in I : i <= j,
                      CHOOSE i \in I : \A j \in I : i >= j)

\* s.rfind(pat, pos) with 1-based positions: the last start of pat at or
\* before pos, 0 for npos
rfind(s, pat, pos) ==
    LET I == {i \in 1..(Len(s) - Len(pat) + 1) :
                 i <= pos /\ substr(s, i, i + Len(pat) - 1) = pat}
    IN IF I = {} THEN 0 ELSE CHOOSE i \in I : \A j \in I : i >= j

\* the whitespace-separated words that operator>> extracts
RECURSIVE words(_)
words(s) ==
    LET I == {i \in 1..Len(s) : ~IsSpace(s[i])}
    IN IF I = {} THEN <<>>
       ELSE LET b == CHOOSE i \in I : \A j \in I : i <= j
                E == {i \in b..Len(s) : IsSpace(s[i])}
                e == IF E = {} THEN Len(s) + 1
                     ELSE CHOOSE i \in E : \A j \in E : i <= j
            IN <<substr(s, b, e - 1)>> \o words(substr(s, e, Len(s)))

\* std::stoul(s, nullptr, 16) and std::stoi(s): the value of the leading
\* digits, -1 when there is none (the call throws)
RECURSIVE leading_number(_, _, _)
leading_number(s, base, acc) ==
    IF s = <<>> \/ digit_val(s[1], base) = -1 THEN acc
    ELSE leading_number(Tail(s), base,
                        (IF acc = -1 THEN 0 ELSE acc) * base + digit_val(s[1], base))

DebLine(addr, is_code, file, line_no) ==
    [addr |-> addr, is_code |-> is_code, file |-> file, line_no |-> line_no]

\* the body of the getline loop of load_deb_map for a line that is neither
\* the "; Binary:" header nor a comment: ok = FALSE where the code continues
parse_record(line) ==
    LET w == words(line)
        addr_val == leading_number(w[1], 16, -1)
        c1 == rfind(line, <<":">>, Len(line))
        c0 == rfind(line, <<":">>, IF c1 = 1 THEN Len(line) ELSE c1 - 1)
        \* c0 = c1 only for a line that starts with its single ':'; the count
        \* c1 - (c0 + 1) then wraps to npos
        line_part == trim(substr(line, c0 + 1, IF c0 = c1 THEN Len(line) ELSE c1 - 1))
        pos2 == rfind(line, <<" ", " ">>, c0)
        file_part == trim(substr(line, pos2, c0 - 1))
        skip == [ok |-> FALSE, dl |-> DebLine(0, FALSE, <<>>, 0)]
    IN IF Len(w) < 3 THEN skip
       ELSE IF addr_val = -1 THEN skip
       ELSE IF c1 = 0 \/ c0 = 0 THEN skip
       ELSE IF line_part = <<>>
               \/ \E i \in 1..Len(line_part) : digit_val(line_part[i], 10) = -1
       THEN skip
       ELSE IF pos2 = 0 THEN skip
       ELSE [ok |-> TRUE,
             dl |-> DebLine(addr_val % 65536, w[3] = <<"C", "O", "D", "E">>,
                            file_part, leading_number(line_part, 10, -1))]

\* fs::path(p).filename()
filename(p) == substr(p, rfind(p, <<"/">>, Len(p)) + 1, Len(p))

\* the largest address instead of the smallest
find_break_addr_m(lines, break_file, break_line) ==
    LET M == {i \in 1..Len(lines) :
                 /\ lines[i].is_code
                 /\ lines[i].line_no = break_line
                 /\ \/ lines[i].file = break_file
                    \/ filename(lines[i].file) = filename(break_file)}
    IN IF M = {} THEN [found |-> FALSE, addr |-> 0]
       ELSE [found |-> TRUE,
             addr |-> CHOOSE a \in {lines[i].addr : i \in M} :
                         \A i \in M : a >= lines[i].addr]

find_break_addr(lines, break_file, break_line) ==
    LET M == {i \in 1..Len(lines) :
                 /\ lines[i].is_code
                 /\ lines[i].line_no = break_line
                 /\ \/ lines[i].file = break_file
                    \/ filename(lines[i].file) = filename(break_file)}
    IN IF M = {} THEN [found |-> FALSE, addr |-> 0]
       ELSE [found |-> TRUE,
             addr |-> CHOOSE a \in {lines[i].addr : i \in M} :
                         \A i \in M : a <= lines[i].addr]

has_any_mapping_for_line(lines, break_file, break_line) ==
    \E i \in 1..Len(lines) :
        /\ lines[i].line_no = break_line
        /\ \/ lines[i].file = break_file
           \/ filename(lines[i].file) = filename(break_file)

\* the source files and the source lines the records come from
SourceFiles == {<<"/", "a", ".", "s", "8">>,
                <<"/", "d", "/", "b", ".", "s", "8">>}

SourceTexts ==
    {<<"H", "A", "L", "T">>,
     <<"S", ":", " ", "H", "A", "L", "T">>,
     <<"N", "O", "P", " ", ";", ":", "7", ":">>}

\* the records pass 2 can push: an instruction or a data item of a line of
\* a source file
RecordPool ==
    {[kind |-> k, addr |-> a,
      bytes |-> IF k = "CODE" THEN <<7, 10, 188>> ELSE <<0>>,
      file |-> pl[1], line_no |-> pl[2], text |-> t] :
        k \in {"CODE", "DATA"}, a \in {256, 2748, 65520},
        pl \in {<<f, IF Len(f) = 5 THEN 5 ELSE 12>> : f \in SourceFiles},
        t \in SourceTexts}

DebPush(rec) ==
    /\ d_pc = "push"
    /\ Len(d_recs) < MaxRecs
    /\ \A i \in 1..Len(d_recs) : d_recs[i].addr # rec.addr
    /\ d_recs' = Append(d_recs, rec)
    /\ UNCHANGED <<d_pc, d_file, d_idx, out_bin_path, out_lines, d_break, d_addr>>

\* the end of assemble (the record of the entry stub) and the writing of the
\* file by main
DebWrite ==
    /\ d_pc = "push"
    /\ LET recs == Append(d_recs, [kind |-> "CODE", addr |-> 0,
                                   bytes |-> <<7, 1, 0>>, file |-> <<"<", "i", "m", "p", "l", "i",
                                          "c", "i", "t", ">">>,
                                   line_no |-> 0, text |-> <<"J", "M", "P", " ",
                                                    "<", "e", "n", "t",
                                                    "r", "y", ">">>])
       IN /\ d_recs' = recs
          /\ d_file' = write_debug_map(recs)
    /\ d_pc' = "load"
    /\ UNCHANGED <<d_idx, out_bin_path, out_lines, d_break, d_addr>>

\* one iteration of the getline loop of load_deb_map
DebLoadLine ==
    /\ d_pc = "load"
    /\ d_idx <= Len(d_file)
    /\ LET line == d_file[d_idx]
       IN IF substr(line, 1, 9) = <<";", " ", "B", "i", "n", "a", "r", "y", ":">>
          THEN /\ out_bin_path' = trim(substr(line, 10, Len(line)))
               /\ UNCHANGED out_lines
          ELSE IF line = <<>> \/ line[1] = ";"
          THEN UNCHANGED <<out_bin_path, out_lines>>
          ELSE LET p == parse_record(line)
               IN /\ out_lines' = IF p.ok THEN Append(out_lines, p.dl) ELSE out_lines
                  /\ UNCHANGED out_bin_path
    /\ d_idx' = d_idx + 1
    /\ UNCHANGED <<d_pc, d_recs, d_file, d_break, d_addr>>

\* the end of load_deb_map; the relative path p.bin next to p.deb stays p.bin
DebLoadEnd ==
    /\ d_pc = "load"
    /\ d_idx > Len(d_file)
    /\ d_pc' = IF out_bin_path = <<>> THEN "invalid" ELSE "done"
    /\ UNCHANGED <<d_recs, d_file, d_idx, out_bin_path, out_lines, d_break, d_addr>>

DebInit ==
    /\ d_pc = "push"
    /\ d_recs = <<>>
    /\ d_file = <<>>
    /\ d_idx = 1
    /\ out_bin_path = <<>>
    /\ out_lines = <<>>
    /\ d_break = [file |-> <<>>, line |-> 0]
    /\ d_addr = 0

DebIdle ==
    /\ d_pc = "off"
    /\ d_recs = <<>>
    /\ d_file = <<>>
    /\ d_idx = 1
    /\ out_bin_path = <<>>
    /\ out_lines = <<>>
    /\ d_break = [file |-> <<>>, line |-> 0]
    /\ d_addr = 0

\* the file and line arguments of a breakpoint request
BreakRequests ==
    {[file |-> f, line |-> n] :
        f \in {<<"/", "a", ".", "s", "8">>, <<"b", ".", "s", "8">>,
               <<"c", ".", "s", "8">>},
        n \in {5, 12, 0}}

\* main, from the breakpoint arguments to the call of run()
DebBreak(req) ==
    /\ d_pc = "done"
    /\ d_break' = req
    /\ IF req.line <= 0
       THEN /\ d_pc' = "InvalidLine"
            /\ d_addr' = 0
       ELSE LET b == find_break_addr(out_lines, req.file, req.line)
            IN /\ d_addr' = b.addr
               /\ d_pc' = IF b.found THEN "run"
                          ELSE IF has_any_mapping_for_line(out_lines, req.file, req.line)
                          THEN "NoExecutableOnLine"
                          ELSE "BreakpointNotFound"
    /\ UNCHANGED <<d_recs, d_file, d_idx, out_bin_path, out_lines>>

\* two source files of one basename, as an include from another directory
\* gives, with code and data on the same line number
SameNamePool ==
    {[kind |-> k, addr |-> a,
      bytes |-> IF k = "CODE" THEN <<7, 10, 188>> ELSE <<0>>,
      file |-> f, line_no |-> 12, text |-> <<"H", "A", "L", "T">>] :
        k \in {"CODE", "DATA"}, a \in {256, 2748, 65520},
        f \in {<<"/", "b", ".", "s", "8">>,
               <<"/", "d", "/", "b", ".", "s", "8">>}}

\* breakpoints asked by the full path of either file and by the basename
SameNameRequests ==
    {[file |-> f, line |-> 12] :
        f \in {<<"/", "b", ".", "s", "8">>,
               <<"/", "d", "/", "b", ".", "s", "8">>,
               <<"b", ".", "s", "8">>}}

SameNameNext ==
    \/ \E rec \in SameNamePool : DebPush(rec)
    \/ DebWrite
    \/ DebLoadLine
    \/ DebLoadEnd
    \/ \E req \in SameNameRequests : DebBreak(req)

DebNext ==
    \/ \E rec \in RecordPool : DebPush(rec)
    \/ DebWrite
    \/ DebLoadLine
    \/ DebLoadEnd
    \/ \E req \in BreakRequests : DebBreak(req)

(***************************************************************************)
(* Assembled instructions on the machine.  A short program is assembled by *)
(* pass 2 at an .org address, the machine is started on it with IP at that *)
(* address and with registers, stack pointer, base pointer and carry that  *)
(* earlier instructions can have left, and run() executes it.  i_hist      *)
(* keeps the machine before and after every instruction.                   *)
(***************************************************************************)
Ins(name, ops) == [name |-> name, ops |-> ops]

\* the image after pass 2 has emitted the instructions src from addr on
RECURSIVE emit_program(_, _, _, _)
emit_program(src, addr, im, sy) ==
    IF src = <<>> THEN im
    ELSE LET it == Item("Ins", Head(src).name, Head(src).ops, <<>>, addr,
                        ILEN[Head(src).name], 0)
         IN emit_program(Tail(src), addr + it.size,
                         emit_item(it, im, {}, sy).img, sy)

Regs(a, b, c) ==
    [i \in 0..7 |-> IF i = 0 THEN a ELSE IF i = 1 THEN b ELSE IF i = 2 THEN c ELSE 0]

\* the machine at the first instruction of the program of case k
Machine(k) ==
    [init_machine(Process0(<<>>, <<>>))
        EXCEPT !.mem = Join(emit_program(k.src, k.org, EmptyMem, k.sy), k.stack),
               !.ip = k.org, !.r = Regs(k.regs[1], k.regs[2], k.regs[3]),
               !.sp = k.sp, !.bp = k.bp, !.c = k.c]

\* the programs, and the registers, pointers, carry and stack bytes they are
\* started on
InsCases ==
    LET
    Case(src, sy, org, regs, sp0, bp0, c0, stack) ==
        [src |-> src, sy |-> sy, org |-> org, regs |-> regs, sp |-> sp0,
         bp |-> bp0, c |-> c0, stack |-> stack]

    ByteValues == {0, 1, 2, 16, 17, 128, 255}
    FewValues == {0, 3, 16, 255}

    \* SHL and SHR of every byte by 0..9
    ShiftCases ==
        {Case(<<Ins(m, <<Imm(n), Id("R1")>>)>>, EmptyMem, 256,
              <<0, v, 0>>, MEM_SIZE, MEM_SIZE, 0, EmptyMem) :
            m \in {"SHL", "SHR"}, n \in 0..9, v \in 0..255}

    \* MUL and DIV with an immediate, over both orders and the aliasing of the
    \* two registers
    ImmCases ==
        {Case(<<Ins(m, <<Imm(rv[1]), Id(ab[1]), Id(ab[2])>>)>>, EmptyMem, 256,
              <<rv[2], rv[3], 0>>, MEM_SIZE, MEM_SIZE,
              IF m = "DIV" THEN rv[2] % 2 ELSE 0, EmptyMem) :
            m \in {"MUL", "DIV"}, ab \in {"R0", "R1"} \X {"R0", "R1"},
            rv \in ByteValues \X ByteValues \X ByteValues}

    \* MULR and DIVR over every aliasing of the three registers
    RegCases ==
        {Case(<<Ins(m, <<Id(abc[1]), Id(abc[2]), Id(abc[3])>>)>>, EmptyMem, 256,
              <<rv[1], rv[2], rv[3]>>, MEM_SIZE, MEM_SIZE,
              IF m = "DIVR" THEN rv[2] % 2 ELSE 0, EmptyMem) :
            m \in {"MULR", "DIVR"},
            abc \in {"R0", "R1", "R2"} \X {"R0", "R1", "R2"} \X {"R0", "R1", "R2"},
            rv \in FewValues \X {1, 2, 17, 255} \X {0, 7, 128}}

    \* PUSH and POP of IP, SP and BP, on the empty stack, in the middle of
    \* memory and at its ends
    WideCases ==
        {Case(<<Ins("PUSH", <<Id(x)>>)>>, EmptyMem, org,
              <<0, 0, 0>>, s, 4660, 0, EmptyMem) :
            x \in {"IP", "SP", "BP"}, org \in {256, 4848}, s \in {MEM_SIZE, 768, 2, 1, 0}}
        \cup
        {Case(<<Ins("POP", <<Id(x)>>)>>, EmptyMem, 256,
              <<0, 0, 0>>, s, 4660, 0, Bytes(s, <<Hi(v), Lo(v)>>)) :
            x \in {"IP", "SP", "BP"}, s \in {768, MEM_SIZE - 2}, v \in {512, 4660, 65279}}

    \* k pushes of general registers and then k pops, k = 1, 2
    StackCases ==
        {Case(<<Ins("PUSH", <<Id(p[1])>>), Ins("POP", <<Id(p[2])>>)>>,
              EmptyMem, 256, <<17, 34, 51>>, s, MEM_SIZE, c0, EmptyMem) :
            p \in {"R0", "R1"} \X {"R0", "R1", "R2"}, s \in {MEM_SIZE, 768, 1, 0},
            c0 \in {0, 1}}
        \cup
        {Case(<<Ins("PUSH", <<Id(p[1])>>), Ins("PUSH", <<Id(p[2])>>),
                Ins("POP", <<Id(p[3])>>), Ins("POP", <<Id(p[4])>>)>>,
              EmptyMem, 256, <<17, 34, 51>>, s, MEM_SIZE, 1, EmptyMem) :
            p \in {"R0", "R1"} \X {"R0", "R1"} \X {"R1", "R2"} \X {"R0", "R2"},
            s \in {MEM_SIZE, 768, 1, 0}}

    \* .org / CALL P / HALT / P: SET #0x5A, R0 / RET
    CallCases ==
        {Case(<<Ins("CALL", <<Id("P")>>), Ins("HALT", <<>>),
                Ins("SET", <<Imm(90), Id("R0")>>), Ins("RET", <<>>)>>,
              [l \in {"P"} |-> org + 4], org,
              <<0, 0, 0>>, s, MEM_SIZE, 0, EmptyMem) :
            org \in {3, 256, 4860}, s \in {MEM_SIZE, 768, 2, 1}}
    IN ShiftCases \cup ImmCases \cup RegCases \cup WideCases \cup StackCases
          \cup CallCases

\* the loop of run() without its test of STOP
InsExec_m ==
    /\ i_pc = "run"
    /\ Len(i_hist) <= MaxOps
    /\ LET w == i_hist[Len(i_hist)]
       IN \E u \in (IF process_instruction(w, u0).hit THEN UBChoices ELSE {u0}) :
             i_hist' = Append(i_hist, process_instruction(w, u))
    /\ UNCHANGED <<i_pc, i_src>>

\* one iteration of the loop of run()
InsExec ==
    /\ i_pc = "run"
    /\ Len(i_hist) <= MaxOps
    /\ i_hist[Len(i_hist)].STOP = 0
    /\ LET w == i_hist[Len(i_hist)]
       IN \E u \in (IF process_instruction(w, u0).hit THEN UBChoices ELSE {u0}) :
             i_hist' = Append(i_hist, process_instruction(w, u))
    /\ UNCHANGED <<i_pc, i_src>>

\* the loop of run() ends
InsEnd ==
    /\ i_pc = "run"
    /\ i_hist[Len(i_hist)].STOP # 0 \/ Len(i_hist) > MaxOps
    /\ i_pc' = "done"
    /\ UNCHANGED <<i_src, i_hist>>

InsInit ==
    /\ i_pc = "run"
    /\ \E k \in InsCases : i_src = k.src /\ i_hist = <<Machine(k)>>

InsIdle ==
    /\ i_pc = "off"
    /\ i_src = <<>>
    /\ i_hist = <<>>

InsNext ==
    \/ InsExec
    \/ InsEnd

(***************************************************************************)
(* More programs for the same machine: compares, HALT and undefined        *)
(* opcodes, register tokens no assembler emits (raw bytes placed behind    *)
(* the assembled instructions), stores and loads around the MMIO window,   *)
(* polls of the keyboard, and one instruction of every mnemonic.           *)
(***************************************************************************)
\* the number of bytes pass 1 reserves for the instructions src
RECURSIVE size_of(_)
size_of(src) == IF src = <<>> THEN 0 ELSE ILEN[Head(src).name] + size_of(Tail(src))

\* the opcodes of the instructions with register operands, and the
\* positions of those operands in the instruction
RegOperands ==
    <<[op |-> Op.LOAD,   at |-> {3}], [op |-> Op.STORE,  at |-> {1}],
      [op |-> Op.STORER, at |-> {1, 2, 3}], [op |-> Op.LOADR, at |-> {1, 2, 3}],
      [op |-> Op.SET,    at |-> {2}], [op |-> Op.INC,    at |-> {1}],
      [op |-> Op.DEC,    at |-> {1}], [op |-> Op.CMP,    at |-> {1}],
      [op |-> Op.CMPR,   at |-> {1, 2}], [op |-> Op.JZ,  at |-> {1}],
      [op |-> Op.JNZ,    at |-> {1}], [op |-> Op.ADD,    at |-> {2}],
      [op |-> Op.ADDR,   at |-> {1, 2}], [op |-> Op.PUSH, at |-> {1}],
      [op |-> Op.POP,    at |-> {1}], [op |-> Op.SUB,    at |-> {2}],
      [op |-> Op.SUBR,   at |-> {1, 2}], [op |-> Op.MUL, at |-> {2, 3}],
      [op |-> Op.MULR,   at |-> {1, 2, 3}], [op |-> Op.DIV, at |-> {2, 3}],
      [op |-> Op.DIVR,   at |-> {1, 2, 3}], [op |-> Op.SHL, at |-> {2}],
      [op |-> Op.SHR,    at |-> {2}]>>

\* the register tokens a handler accepts at an operand of opcode op
ValidTokens(op) ==
    IF op \in {Op.PUSH, Op.POP} THEN Rc.IR0..Rc.IBP ELSE Rc.IR0..Rc.IR7

OpsCases ==
    LET
    Case(src, raw, org, regs, sp0, c0, ram, input) ==
        [src |-> src, sy |-> [l \in {"L"} |-> org + 16], org |-> org,
         regs |-> regs, sp |-> sp0, bp |-> MEM_SIZE, c |-> c0,
         stack |-> Join(ram, Bytes(org + size_of(src), raw)), input |-> input]

    ByteValues == {0, 1, 2, 16, 17, 128, 255}

    \* CMP and CMPR over both registers and their aliasing
    CmpCases ==
        {Case(<<Ins("CMP", <<Id(n), Imm(v[3])>>)>>, <<>>, 256,
              <<v[1], v[2], 9>>, MEM_SIZE, c0, EmptyMem, <<>>) :
            n \in {"R0", "R1"}, v \in ByteValues \X {0, 17} \X ByteValues,
            c0 \in {0, 1}}
        \cup
        {Case(<<Ins("CMPR", <<Id(nm[1]), Id(nm[2])>>)>>, <<>>, 256,
              <<v[1], v[2], 9>>, MEM_SIZE, c0, EmptyMem, <<>>) :
            nm \in {"R0", "R1"} \X {"R0", "R1"}, v \in ByteValues \X ByteValues,
            c0 \in {0, 1}}

    \* HALT and bytes that are no opcode, first and after a NOP and a SET
    StopCases ==
        {Case(src, <<b, 4, 1, 242>>, org, <<1, 2, 3>>, s, c0, EmptyMem, <<>>) :
            src \in {<<>>, <<Ins("NOP", <<>>), Ins("SET", <<Imm(7), Id("R1")>>)>>},
            b \in {0, 29, 30, 128, 241, 250, 254}, org \in {3, 256, 65527},
            s \in {MEM_SIZE, 768}, c0 \in {0, 1}}

    \* every register operand of every opcode replaced by a byte that is no
    \* token for it, the other operands being R1, R2, R3 and nonzero
    \* immediates; a NOP follows
    Operand(op, k) ==
        IF k \in RegOperands[CHOOSE i \in DOMAIN RegOperands :
                                RegOperands[i].op = op].at
        THEN Rc.IR0 + k
        ELSE IF op \in {Op.JZ, Op.JNZ, Op.LOAD, Op.STORE} THEN 3 ELSE 2
    Encoded(op, k, tok) ==
        [j \in 1..(ILEN[CHOOSE m \in Mnemonics : OPC[m] = op] + 1) |->
            IF j = 1 THEN op
            ELSE IF j = ILEN[CHOOSE m \in Mnemonics : OPC[m] = op] + 1 THEN Op.NOP
            ELSE IF j - 1 = k THEN tok ELSE Operand(op, j - 1)]
    BadTokens == {0, 1, 241, 250, 251, 252, 253, 255}
    TokenCases ==
        {Case(<<>>, Encoded(RegOperands[ik[1]].op, ik[2], tok), 256,
              <<5, 3, 7>>, 768, 0, EmptyMem, <<>>) :
            ik \in {x \in (DOMAIN RegOperands) \X (1..3) : x[2] \in RegOperands[x[1]].at},
            tok \in BadTokens \cup {Rc.IR0}}

    \* a valid instruction that leaves a value in a handler's locals, and
    \* then the same opcode with a byte that is no token
    StaleCases ==
        {Case(<<Ins("SET", <<Imm(65), Id("R0")>>), Ins("STORE", <<Id("R0"), Num(768)>>)>>,
              <<Op.STORE, tok, 3, 1>>, 256, <<0, 0, 0>>, MEM_SIZE, 0, EmptyMem, <<>>) :
            tok \in {0, Rc.IR0}}
        \cup
        {Case(<<Ins("CMPR", <<Id("R0"), Id("R1")>>)>>,
              <<Op.CMPR, Rc.IR0, tok>>, 256, <<200, 17, 0>>, MEM_SIZE, 0, EmptyMem, <<>>) :
            tok \in {0, Rc.IR0 + 1}}
        \cup
        {Case(<<Ins("DIVR", <<Id("R0"), Id("R1"), Id("R2")>>)>>,
              <<Op.DIVR, tok, Rc.IR0 + 1, Rc.IR0 + 2>>, 256, <<3, 200, 0>>, MEM_SIZE, 0,
              EmptyMem, <<>>) :
            tok \in {0, Rc.IR0}}
        \cup
        {Case(<<Ins("MUL", <<Imm(3), Id("R0"), Id("R1")>>)>>,
              <<Op.MUL, 2, Rc.IR0, tok>>, 256, <<0, 100, 0>>, MEM_SIZE, 0,
              EmptyMem, <<>>) :
            tok \in {0, Rc.IR0 + 1}}

    \* RAM behind the MMIO window and around it
    Ram == [a \in {767, 768, 65279, 65280, 65281, 65282, 65283, 65284, 65534} |-> 119]
    Places == {768, 65279, 65280, 65281, 65282, 65283, 65284, 65534, 65535}

    \* two stores, and a store followed by a load, by address and by
    \* register pair
    StoreCases ==
        {Case(<<Ins("STORE", <<Id("R0"), Num(pq[1])>>),
                Ins("STORE", <<Id("R1"), Num(pq[2])>>),
                Ins("LOAD", <<Num(pq[1]), Id("R2")>>)>>, <<>>, 256,
              <<v, 105, 9>>, MEM_SIZE, 0, Ram, <<>>) :
            pq \in Places \X {65283, 768, 65535}, v \in {72, 0}}
        \cup
        {Case(<<Ins("SET", <<Imm(Hi(p)), Id("R1")>>), Ins("SET", <<Imm(Lo(p)), Id("R2")>>),
                Ins("STORER", <<Id("R0"), Id("R1"), Id("R2")>>),
                Ins("LOADR", <<Id("R3"), Id("R1"), Id("R2")>>)>>, <<>>, 256,
              <<v, 0, 0>>, MEM_SIZE, 0, Ram, <<>>) :
            p \in Places, v \in {72, 0}}

    \* every order of four polls of the keyboard status and data ports
    Reads == {<<Num(65280), Id("R0")>>, <<Num(65281), Id("R1")>>}
    KbdCases ==
        {Case(<<Ins("LOAD", q[1]), Ins("LOAD", q[2]), Ins("LOAD", q[3]),
                Ins("LOAD", q[4])>>, <<>>, 256, <<9, 9, 9>>, MEM_SIZE, 0, Ram, keys) :
            q \in Reads \X Reads \X Reads \X Reads,
            keys \in {<<>>, <<65>>, <<65, 194>>, <<0, 66>>, <<200, 66, 67>>}}

    \* one instruction of every mnemonic; the conditional jumps taken and not
    One(name) ==
        CASE SPECS[name] = <<"Addr16", "Gpr">> -> <<Num(768), Id("R1")>>
          [] SPECS[name] = <<"Gpr", "Addr16">> -> <<Id("R1"), Id("L")>>
          [] SPECS[name] = <<"Gpr", "Gpr", "Gpr">> -> <<Id("R0"), Id("R1"), Id("R2")>>
          [] SPECS[name] = <<"Imm8", "Gpr">> -> <<Imm(3), Id("R1")>>
          [] SPECS[name] = <<"Gpr">> -> <<Id("R1")>>
          [] SPECS[name] = <<"Addr16">> -> <<Id("L")>>
          [] SPECS[name] = <<>> -> <<>>
          [] SPECS[name] = <<"Gpr", "Imm8">> -> <<Id("R1"), Imm(3)>>
          [] SPECS[name] = <<"Gpr", "Gpr">> -> <<Id("R0"), Id("R1")>>
          [] SPECS[name] = <<"Imm8", "Gpr", "Gpr">> -> <<Imm(3), Id("R0"), Id("R1")>>
          [] SPECS[name] = <<"AnyReg">> -> <<Id("R1")>>
    EachCases ==
        {Case(<<Ins(m, One(m)), Ins("NOP", <<>>)>>, <<>>, org,
              <<v[1], v[2], 3>>, 768, c0, Ram, <<>>) :
            m \in Mnemonics, org \in {256, 4860}, v \in {<<2, 0>>, <<1, 200>>, <<255, 255>>},
            c0 \in {0, 1}}
        \cup
        {Case(<<Ins(m, <<Id(x)>>), Ins("NOP", <<>>)>>, <<>>, 256,
              <<1, 2, 3>>, 768, 0, Ram, <<>>) :
            m \in {"PUSH", "POP"}, x \in {"IP", "SP", "BP"}}
    IN CmpCases \cup StopCases \cup TokenCases \cup StaleCases \cup StoreCases
          \cup KbdCases \cup EachCases

OpsInit ==
    /\ i_pc = "run"
    /\ \E k \in OpsCases :
          /\ i_src = k.src
          /\ i_hist = <<[Machine(k) EXCEPT !.stdin = k.input]>>

(***************************************************************************)
(* The countdown loop.  The program                                        *)
(*     .org / SET #k, R0 / L: DEC R0 / JNZ R0, L / HALT                    *)
(* is laid out behind the entry stub, the 3 bytes of JMP at 0x0000, and    *)
(* main() runs it from the initial machine.  cycles counts the             *)
(* instructions run() has executed.                                        *)
(***************************************************************************)
LoopSource(k) ==
    <<Ins("SET", <<Imm(k), Id("R0")>>), Ins("DEC", <<Id("R0")>>),
      Ins("JNZ", <<Id("R0"), Id("L")>>), Ins("HALT", <<>>)>>

\* the image pass 2 and the entry stub leave for the loop counting from k
LoopImage(k) ==
    LET org == ILEN["JMP"]
        sy == [l \in {"L"} |-> org + size_of(SubSeq(LoopSource(k), 1, 1))]
    IN Join(emit_program(LoopSource(k), org, EmptyMem, sy),
            Bytes(0, <<OPC["JMP"], Hi(org), Lo(org)>>))

\* one iteration of the loop of run()
LoopRun ==
    /\ v_pc = "run"
    /\ vm.STOP = 0
    /\ cycles < MaxLoop
    /\ step(vm, vm')
    /\ cycles' = cycles + 1
    /\ UNCHANGED <<v_pc, ref, break_enabled, break_addr, debug_img, disk_ok,
                   ref_cycles, resumes>>

\* the loop of run() ends and main returns
LoopExit ==
    /\ v_pc = "run"
    /\ vm.STOP # 0 \/ cycles = MaxLoop
    /\ v_pc' = "exited"
    /\ UNCHANGED <<vm, ref, break_enabled, break_addr, debug_img, disk_ok,
                   cycles, ref_cycles, resumes>>

LoopInit ==
    /\ v_pc = "run"
    /\ \E k \in 0..255 :
          vm = load_bin_file(init_machine(Process0(<<>>, <<>>)), LoopImage(k))
    /\ ref = vm
    /\ break_enabled = FALSE
    /\ break_addr = 0
    /\ debug_img = NoFile
    /\ disk_ok = TRUE
    /\ cycles = 0
    /\ ref_cycles = 0
    /\ resumes = 0

LoopNext ==
    \/ LoopRun
    \/ LoopExit

(***************************************************************************)
(* Starting on a file.  main() initialises the machine and hands its first *)
(* argument to load_debug_image; when that fails it hands the same         *)
(* argument to load_bin_file, and then calls run().  The files are a       *)
(* snapshot as save_debug_image writes it, the same with a wrong magic or  *)
(* version byte, and its prefixes.                                         *)
(***************************************************************************)
\* the bytes of file f, header first
FileLen(f) == Len(f.hdr) + f.mem_len
FileByte(f, i) ==
    IF i < Len(f.hdr) THEN f.hdr[i + 1] ELSE MemGet(f.mem, i - Len(f.hdr))

\* fread(mem, 1, MEM_SIZE, f): the bytes the file has, from its start
fread_mem(w, f) ==
    LET n == Len(f.hdr)
        got == {a \in 0..(n - 1) : a < FileLen(f)}
                  \cup {a + n : a \in {x \in DOMAIN f.mem :
                                         x < f.mem_len /\ x + n < MEM_SIZE}}
        kept == {a \in DOMAIN w.mem : a >= FileLen(f)}
    IN [w EXCEPT !.mem =
          [a \in {x \in got : FileByte(f, x) # 0} \cup kept |->
              IF a < FileLen(f) THEN FileByte(f, a) ELSE w.mem[a]]]

\* main, from init_machine() to the call of run(), on one file argument
load_state(w, f) ==
    LET ld == load_debug_image(w, f)
    IN IF ld.ok THEN [pc |-> "resumed", w |-> ld.w]
       ELSE IF f = NoFile THEN [pc |-> "exited", w |-> ld.w]
       ELSE [pc |-> "run", w |-> fread_mem(ld.w, f)]

\* the first lim bytes of file f
Prefix(f, lim) ==
    IF lim <= Len(f.hdr)
    THEN [hdr |-> SubSeq(f.hdr, 1, lim), mem |-> EmptyMem, mem_len |-> 0]
    ELSE LET m == lim - Len(f.hdr)
         IN [hdr |-> f.hdr,
             mem |-> [a \in {x \in DOMAIN f.mem : x < m} |-> f.mem[a]],
             mem_len |-> m]

SnapshotFiles ==
    LET
    \* INC R0 / STORE R0, 0x0300 / HALT at the address where a raw load of
    \* the snapshot puts the byte of 0x0100 - 27
    Code == <<Op.INC, Rc.IR0, Op.STORE, Rc.IR0, 3, 0, Op.HALT>>
    Saved(ip0, c0) ==
        [init_machine(Process0(<<>>, <<>>))
            EXCEPT !.r = Regs(5, 3, 7), !.ip = ip0, !.sp = 768, !.bp = 1027,
                   !.c = c0,
                   !.mem = Join(Bytes(229, Code), Bytes(256, <<Op.DEC, Rc.IR0 + 1>>))]
    Good == {save_debug_image(Saved(ip0, c0)) : ip0 \in {256, 258}, c0 \in {0, 1}}
    Wrong(f, i, b) == [f EXCEPT !.hdr[i] = b]
    IN Good
       \cup {Wrong(f, i, 115) : f \in Good, i \in 1..4}
       \cup {Wrong(f, 5, v) : f \in Good, v \in {0, 2}}
       \cup {Prefix(f, lim) : f \in Good,
                              lim \in 0..27 \cup {28, 256, 300, 65561}}
       \cup {NoFile}

\* main up to run(): the machine is started on the file
Restore ==
    /\ v_pc = "broke"
    /\ LET ld == load_state(vm, debug_img)
       IN /\ vm' = ld.w
          /\ v_pc' = ld.pc
    /\ UNCHANGED <<ref, break_enabled, break_addr, debug_img, disk_ok, cycles,
                   ref_cycles, resumes>>

\* run() returns and main returns 0
RunExit ==
    /\ v_pc \in {"run", "resumed"}
    /\ vm.STOP # 0 \/ cycles = MaxCycles
    /\ v_pc' = "exited"
    /\ UNCHANGED <<vm, ref, break_enabled, break_addr, debug_img, disk_ok,
                   cycles, ref_cycles, resumes>>

\* ref keeps the machine init_machine() left
RestoreInit ==
    /\ v_pc = "broke"
    /\ vm = init_machine(Process0(<<>>, <<>>))
    /\ ref = vm
    /\ break_enabled = FALSE
    /\ break_addr = 0
    /\ debug_img \in SnapshotFiles
    /\ disk_ok = TRUE
    /\ cycles = 0
    /\ ref_cycles = 0
    /\ resumes = 0

RestoreNext ==
    \/ Restore
    \/ Run
    \/ RunExit

(***************************************************************************)
(* The specifications.                                                     *)
(***************************************************************************)
InitAsm == AsmInit /\ PreIdle /\ VmIdle /\ DebIdle /\ InsIdle
NextAsm == AsmNext /\ UNCHANGED <<pvars, vvars, dvars, ivars>>
SpecAsm == InitAsm /\ [][NextAsm]_vars

NextLab == LabNext /\ UNCHANGED <<pvars, vvars, dvars, ivars>>
SpecLab == InitAsm /\ [][NextLab]_vars

NextItems == ItemsNext /\ UNCHANGED <<pvars, vvars, dvars, ivars>>
SpecItems == InitAsm /\ [][NextItems]_vars

InitPre == PreInit /\ AsmIdle /\ VmIdle /\ DebIdle /\ InsIdle
NextPre == PreNext /\ UNCHANGED <<avars, vvars, dvars, ivars>>
SpecPre == InitPre /\ [][NextPre]_vars
\* the preprocessor is a sequential program: it keeps taking its next step
SpecPreLive == InitPre /\ [][NextPre]_vars /\ WF_vars(NextPre)

InitVM == VmInit /\ AsmIdle /\ PreIdle /\ DebIdle /\ InsIdle
NextVM == VmNext /\ UNCHANGED <<avars, pvars, dvars, ivars>>
SpecVM == InitVM /\ [][NextVM]_vars

InitDeb == DebInit /\ AsmIdle /\ PreIdle /\ VmIdle /\ InsIdle
NextDeb == DebNext /\ UNCHANGED <<avars, pvars, vvars, ivars>>
SpecDeb == InitDeb /\ [][NextDeb]_vars

NextSameName == SameNameNext /\ UNCHANGED <<avars, pvars, vvars, ivars>>
SpecSameName == InitDeb /\ [][NextSameName]_vars

InitIns == InsInit /\ AsmIdle /\ PreIdle /\ VmIdle /\ DebIdle
NextIns == InsNext /\ UNCHANGED <<avars, pvars, vvars, dvars>>
SpecIns == InitIns /\ [][NextIns]_vars

InitOps == OpsInit /\ AsmIdle /\ PreIdle /\ VmIdle /\ DebIdle
SpecOps == InitOps /\ [][NextIns]_vars

InitLoop == LoopInit /\ AsmIdle /\ PreIdle /\ DebIdle /\ InsIdle
NextLoop == LoopNext /\ UNCHANGED <<avars, pvars, dvars, ivars>>
SpecLoop == InitLoop /\ [][NextLoop]_vars /\ WF_vars(NextLoop)

InitRestore == RestoreInit /\ AsmIdle /\ PreIdle /\ DebIdle /\ InsIdle
NextRestore == RestoreNext /\ UNCHANGED <<avars, pvars, dvars, ivars>>
SpecRestore == InitRestore /\ [][NextRestore]_vars


(***************************************************************************)
(* Properties of the assembler.                                            *)
(***************************************************************************)

RecRange(rec) == rec.addr .. (rec.addr + Len(rec.bytes) - 1)
ItemRange(it) == it.addr .. (it.addr + it.size - 1)

\* C1: in pass 2 every byte write goes to an address whose occupancy bit is
\* clear: an item that would write an occupied address (0x0000..0x0002
\* included) aborts the assembly and leaves the image alone, and the byte
\* ranges of the emitted records, the stub included, are pairwise disjoint.
C1_EmissionsDisjoint ==
    /\ [](\A i, j \in 1..Len(deb_records) :
            i < j => RecRange(deb_records[i]) \cap RecRange(deb_records[j]) = {})
    /\ [][(a_pc = "pass2" /\ it_idx <= Len(items)
            /\ ItemRange(items[it_idx]) \cap used # {})
          => (a_pc' = "error" /\ img' = img /\ used' = used)]_vars
    /\ [][(a_pc = "pass2" /\ a_pc' = "pass2")
          => (\A a \in used' \ used : a \notin used /\ a \notin {0, 1, 2})]_vars

\* C1 witness: a second emission at an address already written was refused
C1_Witness ==
    /\ a_pc = "error" /\ a_err = "Overlap"
    /\ Len(deb_records) >= 1
    /\ ItemRange(items[it_idx]) \cap RecRange(deb_records[1]) # {}

\* the entry the source declares, read off the lines laid expanded in pass 1
EntryMarkers == {i \in 1..Len(items) : items[i].name = ".org" /\ items[i].ops = <<>>}
NumericOrgs  == {i \in 1..Len(items) : items[i].name = ".org" /\ items[i].ops # <<>>}
FirstOf(S)   == CHOOSE i \in S : \A j \in S : i <= j
DeclaredEntry ==
    IF EntryMarkers # {} THEN items[FirstOf(EntryMarkers)].addr
    ELSE items[FirstOf(NumericOrgs)].ops[1].val

C8_JmpLabelBytes ==
    a_pc = "done" =>
        \A i \in 1..Len(items) :
            (items[i].name = "JMP" /\ is_ident(items[i].ops[1])) =>
                LET A == sym[items[i].ops[1].id] IN
                /\ MemGet(img, items[i].addr) = 7
                /\ MemGet(img, items[i].addr + 1) = A \div 256
                /\ MemGet(img, items[i].addr + 2) = A % 256

\* C8 witness: a JMP to a label defined on a later line, beyond 0x00FF, and
\* a JMP to a label defined on an earlier line
C8_Witness ==
    /\ a_pc = "done"
    /\ \E i \in 1..Len(items) :
          /\ items[i].name = "JMP" /\ is_ident(items[i].ops[1])
          /\ sym[items[i].ops[1].id] > items[i].addr
          /\ sym[items[i].ops[1].id] >= 256
          /\ (sym[items[i].ops[1].id] % 256) # (sym[items[i].ops[1].id] \div 256)
    /\ \E i \in 1..Len(items) :
          /\ items[i].name = "JMP" /\ is_ident(items[i].ops[1])
          /\ sym[items[i].ops[1].id] < items[i].addr


\* C11: the location counter is at least 0x0003 throughout pass 1 (a
\* numeric .org below 0x0003 or above 0xFFFF is rejected and never becomes an
\* item), so after a successful assembly no item with bytes overlaps
\* 0x0000..0x0002 and the entry address lies in 0x0003..0xFFFF.
C11_LocationCounterFloor ==
    /\ lc >= 3
    /\ \A i \in NumericOrgs : items[i].ops[1].val \in 3..65535
    /\ a_pc = "done" =>
          /\ \A i \in 1..Len(items) : ItemRange(items[i]) \cap {0, 1, 2} = {}
          /\ entry \in 3..65535

\* C11 witness: the entry marker on the first line fixes the entry at 0x0003
\* and the first item with bytes sits there
C11_Witness ==
    /\ a_pc = "done"
    /\ entry = 3
    /\ \E i \in 1..Len(items) : items[i].addr = 3 /\ items[i].size > 0

\* C12: the image is the MEM_SIZE-byte vector of which img lists the non-zero
\* bytes.  After a successful assembly every emitted byte has an address in
\* 0x0000..0xFFFE and every byte outside the items and the stub is 0x00; no
\* layout with a byte at 0xFFFF or beyond gets past pass 1.
C12_ImageBounds ==
    /\ a_pc \in {"pass2", "done"} =>
          \A i \in 1..Len(items) : items[i].addr + items[i].size <= MEM_SIZE
    /\ a_pc = "done" =>
          /\ used \subseteq 0..(MEM_SIZE - 1)
          /\ \A a \in DOMAIN img :
                /\ a \in 0..(MEM_SIZE - 1)
                /\ a \in {0, 1, 2} \/ \E i \in 1..Len(items) : a \in ItemRange(items[i])
          /\ used = {0, 1, 2} \cup UNION {ItemRange(items[i]) : i \in 1..Len(items)}

\* C12 witness: an item ends at the last byte of the image, 0xFFFE
C12_Witness ==
    /\ a_pc = "done"
    /\ \E i \in 1..Len(items) :
          items[i].size > 0 /\ items[i].addr + items[i].size = MEM_SIZE
    /\ MemGet(img, MEM_SIZE - 1) # 0

C29_EntryOrgRequired ==
    a_pc \in {"pass2", "stub", "done"} => entry_mark_present

\* C35: after a successful assembly the records write_debug_map writes are
\* one per instruction and per .byte, .word and .string item, with the
\* item's address, kind, line and size, and the one implicit CODE record of
\* the stub at 0x0000; they are written in strictly increasing order of
\* start address, their byte ranges are pairwise disjoint and together are
\* exactly the occupied addresses, and the bytes of each record are the
\* bytes of the image at its range.
C35_DebMapMatchesImage ==
    a_pc = "done" =>
        LET recs == sort_records(deb_records)
            Emitting == {i \in 1..Len(items) : items[i].name # ".org"}
            StubRec == DebRecord("CODE", 0, <<OPC["JMP"], Hi(entry), Lo(entry)>>,
                                 "<implicit>", 0)
            OfItem(i) == {j \in 1..Len(recs) :
                             /\ recs[j].addr = items[i].addr
                             /\ recs[j].kind = (IF items[i].kind = "Ins"
                                                THEN "CODE" ELSE "DATA")
                             /\ recs[j].line_no = items[i].line_no
                             /\ Len(recs[j].bytes) = items[i].size}
        IN /\ Len(recs) = Cardinality(Emitting) + 1
           /\ \A i \in Emitting : Cardinality(OfItem(i)) = 1
           /\ Cardinality({j \in 1..Len(recs) : recs[j] = StubRec}) = 1
           /\ \A j \in 1..(Len(recs) - 1) : recs[j].addr < recs[j + 1].addr
           /\ \A j, k \in 1..Len(recs) :
                 j < k => RecRange(recs[j]) \cap RecRange(recs[k]) = {}
           /\ UNION {RecRange(recs[j]) : j \in 1..Len(recs)} = used
           /\ \A j \in 1..Len(recs) : \A k \in 1..Len(recs[j].bytes) :
                 MemGet(img, recs[j].addr + k - 1) = recs[j].bytes[k]

\* C35 witness: an assembly that emitted data high in memory before code
\* lower down, so that the records were pushed out of address order
C35_Witness ==
    /\ a_pc = "done"
    /\ Len(deb_records) = 3
    /\ deb_records[1].kind = "DATA" /\ deb_records[2].kind = "CODE"
    /\ deb_records[1].addr > deb_records[2].addr
    /\ deb_records[3].addr = 0
    /\ used = {0, 1, 2} \cup RecRange(deb_records[1]) \cup RecRange(deb_records[2])

\* the size pass 1 gives the statement of line ln: the ILEN length of an
\* instruction, one byte per .byte operand, two per .word operand, the
\* decoded length plus the terminator for .string
SizeOf(ln) ==
    CASE ln.name \in Mnemonics -> ILEN[ln.name]
      [] ln.name = ".byte" -> Len(ln.ops)
      [] ln.name = ".word" -> 2 * Len(ln.ops)
      [] ln.name = ".string" -> Len(decode_c_string(ln.str).bytes) + 1

\* C36: pass 1 binds the labels of a line to the location counter, lays an
\* instruction or data item out at that counter with the size of its kind
\* and advances the counter by it, while a line of labels alone and an
\* operandless .org leave the counter where it is; pass 2 then writes, for
\* every item, exactly the addresses addr..addr+size-1 and no other.  Hence
\* a label has the address of the first byte of the next item behind it,
\* unless an .org <addr> comes between.
C36_ItemsFillTheirRange ==
    /\ [][\A ln \in AllItemLines :
            (Pass1Line(ln) /\ a_pc' = "pass1") =>
               /\ \A l \in Range(ln.labels) : sym'[l] = lc
               /\ IF ln.name \notin {"", ".org"}
                  THEN /\ Len(items') = Len(items) + 1
                       /\ items'[Len(items')].addr = lc
                       /\ items'[Len(items')].size = SizeOf(ln)
                       /\ SizeOf(ln) >= 1
                       /\ lc' = lc + SizeOf(ln)
                  ELSE IF ln.name = ".org" /\ ln.ops # <<>>
                  THEN lc' = ln.ops[1].val
                  ELSE lc' = lc]_vars
    /\ [][(a_pc = "pass2" /\ it_idx <= Len(items) /\ a_pc' = "pass2") =>
            LET it == items[it_idx]
            IN /\ used \cap ItemRange(it) = {}
               /\ used' = used \cup ItemRange(it)
               /\ Cardinality(used' \ used) = it.size
               /\ \A a \in (DOMAIN img \cup DOMAIN img') \ ItemRange(it) :
                     MemGet(img', a) = MemGet(img, a)]_vars

\* C36 witness: .org 0x0100 / C: / .org / E: JZ R1, C assembled: both labels
\* are the address of the first of the four bytes of the JZ
C36_Witness ==
    /\ a_pc = "done"
    /\ DOMAIN sym = {"C", "E"}
    /\ sym["C"] = 256 /\ sym["E"] = 256
    /\ entry = 256
    /\ Len(items) = 3 /\ items[3].name = "JZ" /\ items[3].addr = 256
    /\ used = {0, 1, 2} \cup (256..259)
    /\ MemGet(img, 256) = OPC["JZ"] /\ MemGet(img, 259) = 0 /\ MemGet(img, 258) = 1

(***************************************************************************)
(* Properties of the preprocessor.                                         *)
(***************************************************************************)
\* C9: when preprocess_file is entered with a file whose canonical path is
\* on the stack of files being expanded (a file including itself included),
\* preprocessing fails as an include cycle, not as a multiple inclusion, and
\* the message lists the chain from the entry file down to the repeated file.
C9_IncludeCycle ==
    [][(p_pc = "run" /\ call # ""
          /\ canonical_or_absolute[call] \in Range(stack_paths))
       => /\ p_pc' = "error"
          /\ p_err' = "IncludeCycle"
          /\ p_chain' = stack_paths \o <<canonical_or_absolute[call]>>
          /\ p_chain'[1] = canonical_or_absolute[EntryPath]
          /\ expanded' = expanded]_vars

\* C9 witness: a cycle through a second file was reported (a -> b -> a)
C9_Witness ==
    /\ p_pc = "error" /\ p_err = "IncludeCycle"
    /\ Len(p_chain) = 3
    /\ p_chain[1] = p_chain[3] /\ p_chain[2] # p_chain[1]

\* C10: entering a file that was included before and is no longer being
\* expanded fails as a multiple inclusion, and no line of any file occurs
\* twice in the flat stream.
C10_IncludeOnce ==
    /\ [][(p_pc = "run" /\ call # ""
             /\ canonical_or_absolute[call] \in included_set
             /\ canonical_or_absolute[call] \notin Range(stack_paths))
          => (p_pc' = "error" /\ p_err' = "MultipleInclusion" /\ expanded' = expanded)]_vars
    /\ [](\A i, j \in 1..Len(expanded) : i < j => expanded[i] # expanded[j])

\* C10 witness: a file already expanded (it put a line on the stream) is
\* included again from another place and refused
C10_Witness ==
    /\ p_pc = "error" /\ p_err = "MultipleInclusion"
    /\ canonical_or_absolute[call] \notin Range(stack_paths)
    /\ \E i \in 1..Len(expanded) : expanded[i].file = canonical_or_absolute[call]


\* C37: all through preprocessing the stack of files being expanded holds
\* no canonical path twice and only paths of the included-once set; that set
\* never loses a path; a path is pushed only if it was never entered before,
\* so each file is expanded at most once; preprocessing ends, in success or
\* in an error, and on success the stack is empty.
C37_StackAndOnceSet ==
    /\ [](/\ \A i, j \in 1..Len(stack_paths) :
                i < j => stack_paths[i] # stack_paths[j]
          /\ Range(stack_paths) \subseteq included_set
          /\ p_pc = "done" => (stack_paths = <<>> /\ call = ""))
    /\ [][included_set \subseteq included_set']_vars
    /\ [][Len(stack_paths') > Len(stack_paths)
            => /\ stack_paths' = Append(stack_paths, canonical_or_absolute[call])
               /\ canonical_or_absolute[call] \notin included_set
               /\ included_set' = included_set \cup {canonical_or_absolute[call]}]_vars
    /\ <>(p_pc \in {"done", "error"})

\* C37 witness: the entry file and two included files were expanded, lines
\* reached the flat stream, and every call has returned
C37_Witness ==
    /\ p_pc = "done"
    /\ Cardinality(included_set) = 3
    /\ stack_paths = <<>>
    /\ frames = <<>>
    /\ \E i \in 1..Len(expanded) :
          expanded[i].file # canonical_or_absolute[EntryPath]

(***************************************************************************)
(* Properties of the virtual machine.                                      *)
(***************************************************************************)
MmioRam(w) == [a \in Mmio.KBD_STATUS..Mmio.TTY_DATA |-> MemGet(w.mem, a)]

\* C3: every memory access of every instruction goes through the address
\* classifier: the array mem is never indexed outside 0x0000..0xFFFE, and
\* no instruction changes the RAM bytes at 0xFF00..0xFF03.
C3_AccessesClassified ==
    /\ [](~vm.oob)
    /\ [][cycles' = cycles + 1 => MmioRam(vm') = MmioRam(vm)]_vars

SameMachine(w1, w2) ==
    /\ w1.r = w2.r /\ w1.ip = w2.ip /\ w1.sp = w2.sp /\ w1.bp = w2.bp
    /\ w1.c = w2.c /\ w1.mem = w2.mem

\* C4: a run that breaks once, is restored from debug.img in a new process
\* and continues with no breakpoint ends with the registers, IP, SP, BP,
\* carry, memory and terminal output of the uninterrupted run of the same
\* image on the same keyboard input (stated for runs free of undefined
\* behaviour).
C4_ResumeEquivalent ==
    (/\ v_pc = "resumed" /\ resumes = 1 /\ ~break_enabled
     /\ vm.STOP # 0 /\ ref.STOP # 0
     /\ ~vm.oob /\ ~vm.ub /\ ~ref.oob /\ ~ref.ub)
    => (SameMachine(vm, ref) /\ vm.tty = ref.tty)

\* C5: with a breakpoint armed at B and IP = B at the start of a cycle, the
\* instruction at B is not executed, the snapshot written holds the current
\* R0..R7, IP = B, SP, BP, carry and memory, STOP becomes 1, and the process
\* runs no further instruction.
C5_BreakBeforeFetch ==
    /\ [][(v_pc \in {"run", "resumed"} /\ vm.STOP = 0
             /\ break_enabled /\ vm.ip = break_addr)
          => /\ cycles' = cycles
             /\ vm' = [vm EXCEPT !.STOP = 1]
             /\ v_pc' = "broke"
             /\ disk_ok =>
                  /\ SubSeq(debug_img'.hdr, 6, 13) = [i \in 1..8 |-> vm.r[i - 1]]
                  /\ debug_img'.hdr[14] * 256 + debug_img'.hdr[15] = break_addr
                  /\ debug_img'.hdr[16] * 256 + debug_img'.hdr[17] = vm.sp
                  /\ debug_img'.hdr[18] * 256 + debug_img'.hdr[19] = vm.bp
                  /\ debug_img'.hdr[20] = vm.c
                  /\ debug_img'.mem = vm.mem
                  /\ debug_img'.mem_len = MEM_SIZE]_vars
    /\ [][v_pc = "broke" => cycles' = cycles]_vars

\* C5 witness: the loop stopped at a breakpoint inside the subroutine, after
\* instructions had run, and the snapshot is on disk
C5_Witness ==
    /\ v_pc = "broke" /\ resumes = 0 /\ cycles >= 2
    /\ vm.ip = break_addr /\ vm.ip >= 512 /\ vm.STOP = 1
    /\ debug_img # NoFile

\* C6: saving a machine and restoring the written snapshot yields the same
\* R0..R7, IP, SP, BP, carry and memory, and leaves STOP = 0.
C6_SnapshotRoundTrip ==
    [][(v_pc = "broke" /\ v_pc' = "resumed")
       => (SameMachine(vm', vm) /\ vm'.STOP = 0)]_vars

\* C6 witness: a machine restored with IP and SP whose two bytes differ,
\* a non-zero register and a non-empty stack
C6_Witness ==
    /\ v_pc = "resumed" /\ vm.STOP = 0 /\ cycles >= 2
    /\ vm.ip = break_addr /\ vm.ip >= 512
    /\ vm.sp < 65535 /\ vm.r[0] # 0
    /\ MemGet(vm.mem, vm.sp) # 0


\* the machine is as load_debug_image restored it from debug.img and a
\* breakpoint is armed at its IP, the address the snapshot was taken at
AsLoaded ==
    LET ld == load_debug_image(init_machine(Process0(vm.stdin, vm.tty)), debug_img)
    IN /\ v_pc = "resumed"
       /\ ld.ok
       /\ vm = ld.w
       /\ break_enabled
       /\ break_addr = vm.ip

\* C34: a machine resumed from a snapshot taken at address B, with a
\* breakpoint armed at B again, breaks at once: no instruction is executed
\* and the snapshot it writes is byte for byte the one it loaded.
C34_ResumeBreaksAgain ==
    [][AsLoaded => /\ v_pc' = "broke"
                   /\ cycles' = cycles
                   /\ vm' = [vm EXCEPT !.STOP = 1]
                   /\ debug_img' = debug_img]_vars

\* C34 witness: a machine stopped for the third time at the breakpoint 0x0003
\* with SET #9, R0 the one instruction executed by the three processes: the
\* breakpoints were at 0x0000 or 0x0003, so a resumed process found its
\* breakpoint at the address of its snapshot
C34_Witness ==
    /\ v_pc = "broke" /\ resumes = 2 /\ cycles = 1
    /\ break_enabled /\ break_addr = 3 /\ vm.ip = 3
    /\ vm.r[0] = 9 /\ vm.STOP = 1
    /\ debug_img = save_debug_image(vm)

(***************************************************************************)
(* Properties of the debug map.                                            *)
(***************************************************************************)
\* C7: every record line written by write_debug_map is accepted by
\* load_deb_map and parsed back to the record's address, kind, file and line
\* number, whatever the source text of the line; hence a breakpoint on the
\* file and line of any CODE record resolves to an address of such a record.
C7_DebRoundTrip ==
    d_pc = "done" =>
        /\ out_lines = [i \in 1..Len(d_recs) |->
                          LET r == sort_records(d_recs)[i]
                          IN DebLine(r.addr, r.kind = "CODE", r.file, r.line_no)]
        /\ \A i \in 1..Len(d_recs) :
              d_recs[i].kind = "CODE" =>
                 LET b == find_break_addr(out_lines, d_recs[i].file,
                                          d_recs[i].line_no)
                 IN b.found /\ \E j \in 1..Len(d_recs) :
                       /\ d_recs[j].kind = "CODE" /\ d_recs[j].addr = b.addr
                       /\ d_recs[j].line_no = d_recs[i].line_no

(***************************************************************************)
(* Properties of the breakpoint resolver.                                  *)
(***************************************************************************)
\* the loaded records of the requested line whose file is the requested
\* one or has its basename
Matching ==
    {i \in 1..Len(out_lines) :
        /\ out_lines[i].line_no = d_break.line
        /\ \/ out_lines[i].file = d_break.file
           \/ filename(out_lines[i].file) = filename(d_break.file)}

\* C27: for a loaded debug map, a file F and a line N >= 1 the resolver
\* yields the smallest address of the CODE records of line N whose file is F
\* or has the basename of F; DATA records never decide it; with no such
\* CODE record the request fails, as "no executable code on this line" when
\* some record of that file and line exists and as "breakpoint not found"
\* when none does, and in both cases run() is not entered.
C27_BreakResolution ==
    (d_pc \in {"run", "NoExecutableOnLine", "BreakpointNotFound"}) =>
        LET Code == {i \in Matching : out_lines[i].is_code}
        IN /\ d_break.line >= 1
           /\ Code # {} =>
                 /\ d_pc = "run"
                 /\ \E i \in Code : out_lines[i].addr = d_addr
                 /\ \A i \in Code : d_addr <= out_lines[i].addr
           /\ (Code = {} /\ Matching # {}) => d_pc = "NoExecutableOnLine"
           /\ Matching = {} => d_pc = "BreakpointNotFound"

\* C27 witness: a breakpoint on b.s8:12 resolved by basename to the lower of
\* the addresses of two CODE records of /d/b.s8:12
C27_Witness ==
    /\ d_pc = "run"
    /\ d_break = [file |-> <<"b", ".", "s", "8">>, line |-> 12]
    /\ Cardinality({i \in Matching : out_lines[i].is_code}) = 2
    /\ \A i \in Matching : out_lines[i].file # d_break.file
    /\ d_addr = 256

\* C33: basename matching is a fallback only: when a CODE record of the
\* requested line has exactly the requested file path, the address the
\* resolver returns is that of such a record, whatever the addresses of the
\* records that match by basename only.
C33_ExactMatchFirst ==
    d_pc = "run" =>
        LET Exact == {i \in 1..Len(out_lines) :
                         /\ out_lines[i].is_code
                         /\ out_lines[i].line_no = d_break.line
                         /\ out_lines[i].file = d_break.file}
        IN Exact # {} => \E i \in Exact : out_lines[i].addr = d_addr

(***************************************************************************)
(* Properties of the instructions.  They are stated for the instructions   *)
(* whose own accesses stay inside the memory array; an access outside it   *)
(* is the subject of C3.                                                   *)
(***************************************************************************)
Steps == 1..(Len(i_hist) - 1)
OpAt(w) == MemGet(w.mem, w.ip)
Arg(w, k) == MemGet(w.mem, w.ip + k)
WideToks == {Rc.IIP, Rc.ISP, Rc.IBP}
WideValue(w, tok) ==
    IF tok = Rc.IIP THEN w.ip ELSE IF tok = Rc.ISP THEN w.sp ELSE w.bp
Pow2(k) == 2 ^ k

\* C13: CALL a at address X stores X+3, high byte first, in mem[SP-2..SP-1],
\* lowers SP by 2 and sets IP = a; a later RET at that lowered SP sets
\* IP = X+3 and puts SP back; the program .org / CALL P / HALT /
\* P: SET #0x5A, R0 / RET stops with R0 = 0x5A and SP as it started (0xFFFF
\* on the machine as initialised).
C13_CallRet ==
    /\ \A i \in Steps :
          LET pre == i_hist[i]
              post == i_hist[i + 1]
              ra == U16(pre.ip + 3)
          IN (OpAt(pre) = Op.CALL /\ ~post.oob) =>
                /\ MemGet(post.mem, pre.sp - 2) = Hi(ra)
                /\ MemGet(post.mem, pre.sp - 1) = Lo(ra)
                /\ post.sp = pre.sp - 2
                /\ post.ip = Arg(pre, 1) * 256 + Arg(pre, 2)
                /\ \A j \in Steps :
                      (j > i /\ OpAt(i_hist[j]) = Op.RET
                         /\ i_hist[j].sp = post.sp /\ ~i_hist[j + 1].oob) =>
                            /\ i_hist[j + 1].ip = ra
                            /\ i_hist[j + 1].sp = pre.sp
    /\ (i_pc = "done" /\ i_src # <<>> /\ i_src[1].name = "CALL"
          /\ ~i_hist[Len(i_hist)].oob) =>
             /\ i_hist[Len(i_hist)].STOP = 1
             /\ i_hist[Len(i_hist)].r[0] = 90
             /\ i_hist[Len(i_hist)].sp = i_hist[1].sp
             /\ i_hist[Len(i_hist)].ip = i_hist[1].ip + 3

\* C13 witness: the program has run from SP = 0xFFFF to its HALT
C13_Witness ==
    /\ i_pc = "done" /\ i_src # <<>> /\ i_src[1].name = "CALL"
    /\ Len(i_hist) = 5
    /\ i_hist[1].sp = MEM_SIZE
    /\ i_hist[5].sp = MEM_SIZE /\ i_hist[5].r[0] = 90 /\ i_hist[5].STOP = 1
    /\ ~i_hist[5].oob

\* C14: PUSH of IP, SP or BP stores the 16-bit value the register holds when
\* the instruction starts, high byte first, in mem[SP-1..SP] (SP as the
\* instruction finds it) and lowers SP by exactly 2.
C14_PushWide ==
    \A i \in Steps :
        LET pre == i_hist[i]
            post == i_hist[i + 1]
            v == WideValue(pre, Arg(pre, 1))
        IN (OpAt(pre) = Op.PUSH /\ Arg(pre, 1) \in WideToks /\ ~post.oob) =>
              /\ MemGet(post.mem, pre.sp - 1) = Hi(v)
              /\ MemGet(post.mem, pre.sp) = Lo(v)
              /\ post.sp = U16(pre.sp - 2)

\* C15: POP into IP, SP or BP reads the 16-bit value V, high byte first,
\* from mem[SP..SP+1] and loads it into the destination, and SP then goes up
\* by 2: after POP IP the next instruction is fetched at V, after POP BP
\* BP = V.
C15_PopWide ==
    \A i \in Steps :
        LET pre == i_hist[i]
            post == i_hist[i + 1]
            V == MemGet(pre.mem, pre.sp) * 256 + MemGet(pre.mem, pre.sp + 1)
        IN (OpAt(pre) = Op.POP /\ Arg(pre, 1) \in WideToks /\ ~post.oob) =>
              CASE Arg(pre, 1) = Rc.IIP -> post.ip = V /\ post.sp = U16(pre.sp + 2)
                [] Arg(pre, 1) = Rc.ISP -> post.sp = U16(V + 2)
                [] Arg(pre, 1) = Rc.IBP -> post.bp = V /\ post.sp = U16(pre.sp + 2)

\* the pushes and pops of general registers of the source
GprStack ==
    /\ i_src # <<>>
    /\ \A n \in 1..Len(i_src) :
          /\ i_src[n].name = (IF 2 * n <= Len(i_src) THEN "PUSH" ELSE "POP")
          /\ is_gpr(i_src[n].ops[1].id)
RegOf(ins) == REGTOK[ins.ops[1].id] - Rc.IR0

\* C16: PUSH Rn lowers SP by 1 and then stores Rn at mem[SP]; POP Rn loads
\* mem[SP] into Rn and then raises SP by 1; so k pushes of general registers
\* followed by k pops give the pushed values back in reverse order and leave
\* SP where it started, every other register and the carry as they were.
C16_StackLifo ==
    /\ \A i \in Steps :
          LET pre == i_hist[i]
              post == i_hist[i + 1]
          IN /\ (OpAt(pre) = Op.PUSH /\ is_reg(Arg(pre, 1)) /\ ~post.oob) =>
                   /\ post.sp = pre.sp - 1
                   /\ MemGet(post.mem, post.sp) = reg(pre, Arg(pre, 1))
             /\ (OpAt(pre) = Op.POP /\ is_reg(Arg(pre, 1)) /\ ~post.oob) =>
                   /\ reg(post, Arg(pre, 1)) = MemGet(pre.mem, pre.sp)
                   /\ post.sp = pre.sp + 1
    /\ (GprStack /\ Len(i_hist) = Len(i_src) + 1 /\ ~i_hist[Len(i_hist)].oob) =>
          LET k == Len(i_src) \div 2
              first == i_hist[1]
              last == i_hist[Len(i_hist)]
          IN /\ \A j \in 1..k :
                   i_hist[k + j + 1].r[RegOf(i_src[k + j])]
                      = i_hist[k + 1 - j].r[RegOf(i_src[k + 1 - j])]
             /\ last.sp = first.sp
             /\ last.c = first.c
             /\ last.bp = first.bp
             /\ \A x \in 0..7 :
                   (\A j \in 1..k : x # RegOf(i_src[k + j])) => last.r[x] = first.r[x]

\* C16 witness: two pushes from SP = 0xFFFF of different values and two pops
\* into other registers have run
C16_Witness ==
    /\ GprStack /\ Len(i_src) = 4 /\ Len(i_hist) = 5
    /\ i_hist[1].sp = MEM_SIZE /\ i_hist[5].sp = MEM_SIZE
    /\ RegOf(i_src[1]) # RegOf(i_src[2])
    /\ RegOf(i_src[3]) = 2 /\ i_hist[5].r[2] = i_hist[1].r[RegOf(i_src[2])]
    /\ ~i_hist[5].oob

\* C17: for every byte v and every count n in 1..8, SHL #n leaves
\* (v << n) & 0xFF with C = ((v << (n-1)) >> 7) & 1, and SHR #n leaves
\* v >> n with C = (v >> (n-1)) & 1: the last bit shifted out.
C17_ShiftCarry ==
    \A i \in Steps :
        LET pre == i_hist[i]
            post == i_hist[i + 1]
            n == Arg(pre, 1)
            v == reg(pre, Arg(pre, 2))
        IN (OpAt(pre) \in {Op.SHL, Op.SHR} /\ n \in 1..8 /\ is_reg(Arg(pre, 2))
              /\ ~post.oob) =>
              IF OpAt(pre) = Op.SHL
              THEN /\ reg(post, Arg(pre, 2)) = (v * Pow2(n)) % 256
                   /\ post.c = ((v * Pow2(n - 1)) \div 128) % 2
              ELSE /\ reg(post, Arg(pre, 2)) = v \div Pow2(n)
                   /\ post.c = (v \div Pow2(n - 1)) % 2

C19_MulOperandOrder ==
    (Len(i_hist) >= 2 /\ i_src # <<>> /\ i_src[1].name \in {"MUL", "MULR"}
       /\ i_src[1].ops[2].id # i_src[1].ops[3].id /\ ~i_hist[2].oob) =>
        LET pre == i_hist[1]
            post == i_hist[2]
            first == REGTOK[i_src[1].ops[2].id]
            second == REGTOK[i_src[1].ops[3].id]
            m == IF i_src[1].name = "MUL" THEN i_src[1].ops[1].val
                 ELSE reg(pre, REGTOK[i_src[1].ops[1].id])
        IN /\ Arg(pre, 2) = first /\ Arg(pre, 3) = second
           /\ \E p \in {reg(pre, first) * m, reg(pre, second) * m} :
                 /\ reg(post, first) = p % 256
                 /\ reg(post, second) = p \div 256
                 /\ post.c = (IF p \div 256 # 0 THEN 1 ELSE 0)

\* C20: for a divisor d other than zero, DIV #d,Rq,Rr and DIVR Rs,Rq,Rr (d
\* the value Rs holds before) leave Rq = floor(v / d) and Rr = v mod d, v
\* being Rq before; if Rq and Rr are one register it ends with v mod d; the
\* carry is left alone.
C20_DivQuotientRemainder ==
    \A i \in Steps :
        LET pre == i_hist[i]
            post == i_hist[i + 1]
            d == IF OpAt(pre) = Op.DIV THEN Arg(pre, 1) ELSE reg(pre, Arg(pre, 1))
            rq == Arg(pre, 2)
            rr == Arg(pre, 3)
            v == reg(pre, rq)
        IN (OpAt(pre) \in {Op.DIV, Op.DIVR} /\ is_reg(rq) /\ is_reg(rr)
              /\ (OpAt(pre) = Op.DIVR => is_reg(Arg(pre, 1))) /\ d # 0
              /\ ~post.oob) =>
              /\ reg(post, rr) = v % d
              /\ rq # rr => reg(post, rq) = v \div d
              /\ post.c = pre.c
              /\ post.ip = pre.ip + 4

\* C20 witness: a DIVR with the carry set, whose quotient and remainder
\* share a register that ends with a remainder other than the quotient
C20_Witness ==
    \E i \in Steps :
        LET pre == i_hist[i]
            post == i_hist[i + 1]
            d == reg(pre, Arg(pre, 1))
            v == reg(pre, Arg(pre, 2))
        IN /\ OpAt(pre) = Op.DIVR /\ ~post.ub /\ ~post.oob
           /\ Arg(pre, 2) = Arg(pre, 3) /\ Arg(pre, 1) # Arg(pre, 2)
           /\ pre.c = 1 /\ post.c = 1
           /\ d > 1 /\ v % d # 0 /\ v \div d # v % d
           /\ reg(post, Arg(pre, 3)) = v % d

\* C21: CMP Rn,#i and CMPR Rn,Rm leave Rn = (Rn - operand) mod 256 and
\* C = 1 iff Rn was below the operand (i, or Rm before the instruction), and
\* change no other register; CMPR of a register with itself leaves it 0 with
\* C = 0.
C21_CompareDestructive ==
    \A i \in Steps :
        LET pre == i_hist[i]
            post == i_hist[i + 1]
            n == Arg(pre, 1) - Rc.IR0
            operand == IF OpAt(pre) = Op.CMP THEN Arg(pre, 2)
                       ELSE pre.r[Arg(pre, 2) - Rc.IR0]
        IN (/\ OpAt(pre) \in {Op.CMP, Op.CMPR}
            /\ is_reg(Arg(pre, 1))
            /\ OpAt(pre) = Op.CMPR => is_reg(Arg(pre, 2))
            /\ ~post.hit)
           => /\ post.r[n] = (pre.r[n] - operand) % 256
              /\ post.c = IF pre.r[n] < operand THEN 1 ELSE 0
              /\ \A j \in (0..7) \ {n} : post.r[j] = pre.r[j]
              /\ (OpAt(pre) = Op.CMPR /\ Arg(pre, 1) = Arg(pre, 2))
                    => (post.r[n] = 0 /\ post.c = 0)

\* C21 witness: a CMPR of a non-zero register with itself that clears a set
\* carry, reached by a program that is now finished
C21_Witness ==
    /\ i_pc = "done"
    /\ \E i \in Steps :
          /\ OpAt(i_hist[i]) = Op.CMPR
          /\ Arg(i_hist[i], 1) = Arg(i_hist[i], 2)
          /\ i_hist[i].r[Arg(i_hist[i], 1) - Rc.IR0] = 128
          /\ i_hist[i].c = 1
          /\ i_hist[i + 1].c = 0
          /\ i_hist[i + 1].r[Arg(i_hist[i], 1) - Rc.IR0] = 0

\* the bytes process_instruction has a case for, HALT excluded
Executing == {Op[m] : m \in DOMAIN Op} \ {Op.HALT}

BadOperands(w) ==
    {k \in UNION {RegOperands[j].at : j \in {x \in DOMAIN RegOperands :
                                               RegOperands[x].op = OpAt(w)}} :
        Arg(w, k) \notin ValidTokens(OpAt(w))}

\* C23: an instruction one of whose register-operand bytes is no token valid
\* for that operand (0xF2..0xF9, and 0xFA..0xFC too for PUSH and POP) sets
\* STOP = 1, and no instruction is executed after it; for every opcode with
\* register operands and every operand position.
C23_BadTokenStops ==
    \A i \in Steps :
        (BadOperands(i_hist[i]) # {} /\ ~i_hist[i + 1].hit)
           => /\ i_hist[i + 1].STOP = 1
              /\ i + 1 = Len(i_hist)

\* C23 witness: a MULR whose third operand is the byte 0xFD stopped the
\* machine, and the NOP behind it did not run
C23_Witness ==
    /\ i_pc = "done"
    /\ Len(i_hist) = 2
    /\ OpAt(i_hist[1]) = Op.MULR
    /\ BadOperands(i_hist[1]) = {3}
    /\ Arg(i_hist[1], 3) = 253
    /\ Arg(i_hist[1], 4) = Op.NOP
    /\ i_hist[2].STOP = 1

\* C24: the registers, IP, SP, BP, carry, memory, output and STOP after an
\* instruction are a function of those before it: the machine that executed
\* the earlier instructions of the program and a machine in the same state
\* whose handlers have executed nothing yet (their function-scoped
\* persistent variables still zero-initialised) reach the same state,
\* whether the instruction bytes are valid or not.
C24_HistoryFree ==
    \A i \in Steps :
        LET alt == process_instruction([i_hist[i] EXCEPT !.st = Statics0], u0)
        IN (~i_hist[i + 1].hit /\ ~alt.hit)
           => /\ SameMachine(i_hist[i + 1], alt)
              /\ i_hist[i + 1].tty = alt.tty
              /\ i_hist[i + 1].STOP = alt.STOP

\* the data address and the data register of the LOAD, LOADR, STORE or
\* STORER at IP
DataAddr(w) ==
    IF OpAt(w) = Op.LOAD THEN Arg(w, 1) * 256 + Arg(w, 2)
    ELSE IF OpAt(w) = Op.STORE THEN Arg(w, 2) * 256 + Arg(w, 3)
    ELSE w.r[Arg(w, 2) - Rc.IR0] * 256 + w.r[Arg(w, 3) - Rc.IR0]

DataReg(w) == (IF OpAt(w) = Op.LOAD THEN Arg(w, 3) ELSE Arg(w, 1)) - Rc.IR0

Pending(w) ==
    (IF w.g_kbd_queued = -1 THEN <<>> ELSE <<w.g_kbd_queued>>)
       \o [j \in 1..Len(w.stdin) |-> w.stdin[j] % 128]

\* step i is a LOAD of the port
Polls(i, port) ==
    /\ OpAt(i_hist[i]) = Op.LOAD
    /\ DataAddr(i_hist[i]) = port
    /\ BadOperands(i_hist[i]) = {}

\* the bytes the first n instructions took from KBD_DATA
RECURSIVE Delivered(_)
Delivered(n) ==
    IF n = 0 THEN <<>>
    ELSE Delivered(n - 1) \o
            (IF Polls(n, Mmio.KBD_DATA) /\ Pending(i_hist[n]) # <<>>
             THEN <<i_hist[n + 1].r[DataReg(i_hist[n])]>> ELSE <<>>)

Taken(w) ==
    \/ OpAt(w) = Op.JZ /\ w.r[Arg(w, 1) - Rc.IR0] = 0
    \/ OpAt(w) = Op.JNZ /\ w.r[Arg(w, 1) - Rc.IR0] # 0
    \/ OpAt(w) = Op.JC /\ w.c # 0
    \/ OpAt(w) = Op.JNC /\ w.c = 0

\* C30: an instruction with valid operands that does not transfer control
\* (not HALT, JMP, CALL, RET, POP IP or a taken conditional jump) leaves IP
\* at IP plus the length the assembler's table ILEN has for its mnemonic; a
\* not-taken JZ or JNZ advances IP by 4, a not-taken JC or JNC by 3, and the
\* return address CALL pushes is IP plus ILEN["CALL"].
C30_LengthsAgree ==
    \A i \in Steps :
        LET pre == i_hist[i]
            post == i_hist[i + 1]
        IN (/\ OpAt(pre) \in {OPC[m] : m \in Mnemonics}
            /\ BadOperands(pre) = {}
            /\ ~post.hit) =>
              LET m == CHOOSE x \in Mnemonics : OPC[x] = OpAt(pre)
              IN /\ (/\ m \notin {"HALT", "JMP", "CALL", "RET"}
                     /\ ~(m = "POP" /\ Arg(pre, 1) = Rc.IIP)
                     /\ ~Taken(pre))
                       => post.ip = (pre.ip + ILEN[m]) % 65536
                 /\ (m \in {"JZ", "JNZ"} /\ ~Taken(pre)) => post.ip = pre.ip + 4
                 /\ (m \in {"JC", "JNC"} /\ ~Taken(pre)) => post.ip = pre.ip + 3
                 /\ m = "CALL" =>
                       MemGet(post.mem, pre.sp - 2) * 256 + MemGet(post.mem, pre.sp - 1)
                          = pre.ip + ILEN["CALL"]

\* C30 witness: a JNZ on a zero register fell through to the NOP the
\* assembler put 4 bytes behind it, and the NOP ran
C30_Witness ==
    /\ i_pc = "done"
    /\ Len(i_hist) >= 3
    /\ Len(i_src) = 2 /\ i_src[1].name = "JNZ" /\ i_src[2].name = "NOP"
    /\ OpAt(i_hist[1]) = Op.JNZ /\ ~Taken(i_hist[1])
    /\ i_hist[2].ip = i_hist[1].ip + 4
    /\ OpAt(i_hist[2]) = Op.NOP
    /\ i_hist[3].ip = i_hist[2].ip + 1


(***************************************************************************)
(* Properties of the countdown loop.                                       *)
(***************************************************************************)
\* the loops the machine has been through: DEC and JNZ once each
Iterations == (cycles - 2) \div 2

\* C31: for every k in 0..255 the program .org / SET #k, R0 / L: DEC R0 /
\* JNZ R0, L / HALT, run from the initial machine, reaches STOP = 1 and
\* stays there, after at most 256 passes of the loop, with R0 = 0 and
\* C = 0; on the way every DEC sets the carry exactly when it wraps R0
\* from 0x00 to 0xFF.
C31_CountdownHalts ==
    /\ <>[](/\ v_pc = "exited"
            /\ vm.STOP = 1
            /\ vm.r[0] = 0
            /\ vm.c = 0
            /\ Iterations <= 256)
    /\ [][(v_pc = "run" /\ OpAt(vm) = Op.DEC /\ vm' # vm)
             => /\ vm'.r[0] = (vm.r[0] + 255) % 256
                /\ vm'.c = (IF vm.r[0] = 0 THEN 1 ELSE 0)]_vars

\* the loop counting from 0 has halted after 256 passes
C31_Witness ==
    /\ v_pc = "exited"
    /\ MemGet(vm.mem, 4) = 0
    /\ MemGet(vm.mem, 3) = Op.SET
    /\ vm.STOP = 1
    /\ vm.r[0] = 0
    /\ vm.c = 0
    /\ Iterations = 256
    /\ cycles = 515


(***************************************************************************)
(* Properties of starting on a snapshot file.                              *)
(***************************************************************************)
\* C32: when restoring the snapshot fails (wrong magic, wrong version, or a
\* file that ends anywhere after the version byte), R0..R7, IP, SP, BP,
\* carry and memory are as init_machine() left them before the attempt, and
\* run() executes no instruction.
C32_RestoreAllOrNothing ==
    (/\ v_pc # "broke"
     /\ Len(debug_img.hdr) >= 5
     /\ ~load_debug_image(ref, debug_img).ok)
        => (SameMachine(vm, ref) /\ cycles = 0)

=============================================================================
